---------------------------- MODULE Spec2Model ----------------------------
(***************************************************************************)
(* Model of the provenance document generator (Generator.py), the document *)
(* view (Search.py, class Document) and the trust-aware provenance search  *)
(* (Search.py, classes SearchData and Search).                             *)
(*                                                                         *)
(* Seven specifications share the module:                                  *)
(*   SpecGen     DocumentGenerator: validation, bundles, updates,          *)
(*               invalidation, serialization;                              *)
(*   SpecDoc     Document.__init__: prepare_updates and test_document;     *)
(*   SpecSearch  Search.__init__ / Search.search over a small file system; *)
(*   SpecCanon   CryptoUtils.bundle_to_bytes;                              *)
(*   SpecSign    SignAuthority.sign_bundle and Validator.valid_bundle;     *)
(*   SpecInput   DocumentData.validate_input;                              *)
(*   SpecParse   CryptoUtils.get_sign_info.                                *)
(* A record is modelled as [kind, id, gen, used, hp]: kind is the record   *)
(* type, id the numeric local part of an entity, gen/used the two formal   *)
(* attributes of a relation, hp the set of has_provenance references of an *)
(* entity, each reference a pair <<path, bundle number>>.                  *)
(***************************************************************************)
EXTENDS Integers, Sequences, FiniteSets, TLC

\* ------------------------------------------------------------------ bounds

\* Largest number of bundle specifications in the generator's input.
MaxBundles == 2

\* Largest number of updates in the generator's input.
MaxUpdates == 2

\* Largest number of wasRevisionOf records in a loaded meta-bundle.
MaxRevisions == 3

\* Bundle numbers an update of the generator's input may name.
RefIds == 1 .. 3

\* Values of the start_id parameter.
StartIds == {1, 2}

\* Values of the invalidate_bundles parameter.
InvalidateLists == {<< >>, <<1>>, <<2>>, <<-1>>}

\* ------------------------------------------------------------------- state

VARIABLES
    \* DocumentGenerator / DocumentData
    gen_pc,            \* position inside DocumentGenerator.__init__
    bundles_entities,  \* DocumentData.bundles_entities (unified input)
    updates,           \* DocumentData.updates (unified input)
    invalidate_bundles,\* DocumentData.invalidate_bundles
    start_id,          \* start_id parameter
    exclude_tokens,    \* DocumentData.exclude_tokens (linked list of values)
    merges_forks,      \* DocumentData.merges_forks
    bundle_ID,         \* Creator.bundle_ID
    bundles,           \* DocumentData.bundles: number -> [records, spec]
    meta,              \* records of the meta-bundle, in insertion order
    next_item,         \* index of the next bundle specification / update
    written,           \* whether the serialization was written
    \* history of the generator run
    signed_len,        \* bundle -> number of its records when it was signed
    skipped_merges,    \* targets of the merge updates left by "continue"
    \* Document (one document being constructed)
    doc_pc,            \* "new", "loaded" or "error" (pr.Error raised)
    doc_meta,          \* records of the document's meta-bundle
    doc_bundles,       \* Document.bundles: number -> records
    doc_updates,       \* Document.updates
    \* Search / SearchData
    search_pc,         \* position inside Search.__init__ / Search.search
    files,             \* the documents on disk: path -> [meta, bundles]
    strict,            \* SearchData.strict
    searched_entity,   \* SearchData.searched_entity
    initial_path,      \* path of the entry document
    documents,         \* paths of SearchData.documents
    valid_bundles,     \* SearchData.valid_bundles (deque of triples)
    invalid_bundles,   \* SearchData.invalid_bundles
    postpone_updates,  \* SearchData.postpone_updates
    searched_bundles,  \* SearchData.searched_bundles: key -> <<found, contains>>
    bundles_validity,  \* SearchData.bundles_validity: <<path, id>> -> verdict
    validations,       \* the calls of Validator.valid_bundle: <<path, id>>
    remarked,          \* history: the keys of searched_bundles whose entry,
                       \* once marked as processed, got another value
    loads,             \* the paths DocumentDeserializer.deserialize has read
    output_valid,      \* SearchData.output_valid
    output_invalid,    \* SearchData.output_invalid
    output_low,        \* SearchData.output_low
    \* history of the search
    traversed,         \* the calls of search_traverse: <<triple, still_valid>>
    entries,           \* the outermost calls of entity_check:
                       \* <<path, bundle, entity, initial_document,
                       \*   still_valid>>
    result,            \* the tuple returned by Search.search
    printed,           \* the lists as ResultPrinter.pretty_print shows them
    \* CryptoUtils.bundle_to_bytes applied to a bundle and a rearrangement
    canon_pc,          \* "new" or "done"
    canon_records,     \* the records of the bundle
    canon_permuted,    \* the same records and attributes in another order
    canon_output,      \* bundle_to_bytes of canon_records
    canon_output_permuted, \* bundle_to_bytes of canon_permuted
    \* SignAuthority.sign_bundle and Validator.valid_bundle on one bundle
    sign_pc,           \* "new", "signed", "failed", "validated", "raised"
    sign_func,         \* SignAuthority.sign_func
    hash_func,         \* SignAuthority.hash_type
    sign_records,      \* the records of the bundle
    sign_meta,         \* the Token derivations of the bundle in meta, each
                       \* as the attributes of the entity it names
    sign_now,          \* datetime.utcnow()
    sign_changed,      \* what was changed after signing
    sign_valid,        \* the value returned by valid_bundle
    \* DocumentData.__init__ on raw arguments
    input_pc,          \* position inside DocumentData.__init__
    input_bundles,     \* the entities_in_bundles argument
    input_updates,     \* the updates argument
    input_exclude,     \* DocumentData.exclude_tokens
    input_unified,     \* the validated bundles and updates
    input_effects,     \* what has been created or written so far
    \* CryptoUtils.get_sign_info on one name
    parse_pc,          \* "new", "returned" or "raised"
    parse_name,        \* the sign_func argument, a sequence of characters
    parse_bytes,       \* the return_bytes argument
    parse_result       \* the tuple returned

genVars == <<gen_pc, bundles_entities, updates, invalidate_bundles, start_id,
             exclude_tokens, merges_forks, bundle_ID, bundles, meta,
             next_item, written, signed_len, skipped_merges>>

docVars == <<doc_pc, doc_meta, doc_bundles, doc_updates>>

searchVars == <<search_pc, files, strict, searched_entity, initial_path,
                documents, valid_bundles, invalid_bundles, postpone_updates,
                searched_bundles, bundles_validity, output_valid,
                output_invalid, output_low, traversed, entries, result,
                printed, validations, loads, remarked>>

canonVars == <<canon_pc, canon_records, canon_permuted, canon_output,
               canon_output_permuted>>

signVars == <<sign_pc, sign_func, hash_func, sign_records, sign_meta,
              sign_now, sign_changed, sign_valid>>

inputVars == <<input_pc, input_bundles, input_updates, input_exclude,
               input_unified, input_effects>>

parseVars == <<parse_pc, parse_name, parse_bytes, parse_result>>

otherVars == <<canonVars, signVars, inputVars, parseVars>>

vars == <<genVars, docVars, searchVars, otherVars>>

\* ----------------------------------------------------------------- records

None == 0

Rec(kind, id, gen, used, hp) ==
    [kind |-> kind, id |-> id, gen |-> gen, used |-> used, hp |-> hp]

\* bundle.entity("ex:<id>", has_provenance attributes)
EntityRec(id, hp) == Rec("entity", id, None, None, hp)

\* bundle.derivation(generated, used, identifier = "der<g>-<u>")
DerivationRec(g, u) == Rec("derivation", None, g, u, {})

\* wasRevisionOf(new, old, identifier = "up#bundle<old>-<new>")
RevisionRec(new, old) == Rec("revision", None, new, old, {})

\* Utilites.filter_attr(record, "prov:type", "Revision")
IsRevisionTyped(record) == record.kind = "revision"

\* record is a prov ProvDerivation (wasDerivedFrom or wasRevisionOf)
IsProvDerivation(record) == record.kind \in {"derivation", "revision"}

\* No search is running.
SearchIdle ==
    /\ search_pc = "idle"
    /\ files = << >>
    /\ strict = FALSE
    /\ searched_entity = 1
    /\ initial_path = ""
    /\ documents = {}
    /\ valid_bundles = << >>
    /\ invalid_bundles = << >>
    /\ postpone_updates = << >>
    /\ searched_bundles = << >>
    /\ bundles_validity = << >>
    /\ output_valid = << >>
    /\ output_invalid = << >>
    /\ output_low = << >>
    /\ traversed = << >>
    /\ entries = {}
    /\ result = << >>
    /\ printed = << >>
    /\ validations = << >>
    /\ loads = << >>
    /\ remarked = {}

\* No generator is running.
GenIdle ==
    /\ gen_pc = "idle"
    /\ bundles_entities = << >>
    /\ updates = << >>
    /\ invalidate_bundles = << >>
    /\ start_id = 1
    /\ exclude_tokens = << >>
    /\ merges_forks = <<{}, {}>>
    /\ bundle_ID = 0
    /\ bundles = << >>
    /\ meta = << >>
    /\ next_item = 1
    /\ written = FALSE
    /\ signed_len = << >>
    /\ skipped_merges = {}

\* No bundle is being converted to bytes.
CanonIdle ==
    /\ canon_pc = "idle"
    /\ canon_records = << >>
    /\ canon_permuted = << >>
    /\ canon_output = << >>
    /\ canon_output_permuted = << >>

\* No bundle is being signed.
SignIdle ==
    /\ sign_pc = "idle"
    /\ sign_func = "NIST256"
    /\ hash_func = "SHA3-512"
    /\ sign_records = << >>
    /\ sign_meta = << >>
    /\ sign_now = 0
    /\ sign_changed = "nothing"
    /\ sign_valid = FALSE

\* No DocumentData is being constructed.
InputIdle ==
    /\ input_pc = "idle"
    /\ input_bundles = << >>
    /\ input_updates = << >>
    /\ input_exclude = << >>
    /\ input_unified = << >>
    /\ input_effects = {}

\* No name is being parsed.
ParseIdle ==
    /\ parse_pc = "idle"
    /\ parse_name = << >>
    /\ parse_bytes = FALSE
    /\ parse_result = << >>

OtherIdle == CanonIdle /\ SignIdle /\ InputIdle /\ ParseIdle

RECURSIVE SeqToSet(_)
SeqToSet(s) == IF s = << >> THEN {} ELSE {Head(s)} \cup SeqToSet(Tail(s))

RECURSIVE Count(_, _)
Count(s, x) ==
    IF s = << >> THEN 0
    ELSE (IF Head(s) = x THEN 1 ELSE 0) + Count(Tail(s), x)


Put(f, k, v) == [x \in DOMAIN f \cup {k} |-> IF x = k THEN v ELSE f[x]]

\* ------------------------------------------------- document view: load

\* Document.updates: keys in insertion order, and key -> <<older, newer>>.
NoUpdates == [keys |-> << >>, map |-> << >>]

OlderIds(ups, id) == IF id \in DOMAIN ups.map THEN ups.map[id][1] ELSE << >>

NewerIds(ups, id) == IF id \in DOMAIN ups.map THEN ups.map[id][2] ELSE << >>

\* Document.check_update_validity: the newer bundle holds the revision.
CheckUpdateValidity(bs, update_from, update_to) ==
    \E i \in 1 .. Len(bs[update_to]) :
        /\ IsRevisionTyped(bs[update_to][i])
        /\ bs[update_to][i].used = update_from
        /\ bs[update_to][i].gen = update_to

\* The body of the loop of Document.prepare_updates for a confirmed record.
\* Both lookups are made before the dictionary is changed.
AddUpdate(ups, update_from, update_to) ==
    LET has_from == update_from \in DOMAIN ups.map
        has_to == update_to \in DOMAIN ups.map
        keys1 == IF has_from THEN ups.keys ELSE Append(ups.keys, update_from)
        map1 == IF has_from
                THEN [ups.map EXCEPT ![update_from][2] = Append(@, update_to)]
                ELSE Put(ups.map, update_from, << << >>, <<update_to>> >>)
        keys2 == IF update_to \in SeqToSet(keys1) THEN keys1
                 ELSE Append(keys1, update_to)
        map2 == IF has_to
                THEN [map1 EXCEPT ![update_to][1] = Append(@, update_from)]
                ELSE Put(map1, update_to, << <<update_from>>, << >> >>)
    IN [keys |-> keys2, map |-> map2]

\* Document.prepare_updates over the Revision records of the meta-bundle.
RECURSIVE PrepareUpdates(_, _, _)
PrepareUpdates(bs, records, ups) ==
    IF records = << >> THEN ups
    ELSE LET record == Head(records)
         IN IF ~IsRevisionTyped(record)
               \/ ~CheckUpdateValidity(bs, record.used, record.gen)
            THEN PrepareUpdates(bs, Tail(records), ups)
            ELSE PrepareUpdates(bs, Tail(records),
                                AddUpdate(ups, record.used, record.gen))

\* Document.check_acyclic; ok is FALSE when pr.Error("Cycle detected!") is
\* raised. searched: bundle -> FALSE (in process) or TRUE (examined).
RECURSIVE CheckAcyclic(_, _, _)
RECURSIVE CheckAcyclicAll(_, _, _)
CheckAcyclic(ups, bundle_id, searched) ==
    IF bundle_id \notin DOMAIN searched
    THEN LET r == CheckAcyclicAll(ups, ups.map[bundle_id][2],
                                  Put(searched, bundle_id, FALSE))
         IN IF r.ok
            THEN [ok |-> TRUE, searched |-> Put(r.searched, bundle_id, TRUE)]
            ELSE r
    ELSE IF ~searched[bundle_id] THEN [ok |-> FALSE, searched |-> searched]
    ELSE [ok |-> TRUE, searched |-> searched]

\* The loop "for update in updates" of check_acyclic.
CheckAcyclicAll(ups, ids, searched) ==
    IF ids = << >> THEN [ok |-> TRUE, searched |-> searched]
    ELSE LET r == CheckAcyclic(ups, Head(ids), searched)
         IN IF r.ok THEN CheckAcyclicAll(ups, Tail(ids), r.searched) ELSE r

\* Document.test_document: the loop over self.updates.items().
RECURSIVE TestDocument(_, _, _)
TestDocument(ups, keys, searched) ==
    IF keys = << >> THEN TRUE
    ELSE IF Head(keys) \in DOMAIN searched
    THEN TestDocument(ups, Tail(keys), searched)
    ELSE LET r == CheckAcyclic(ups, Head(keys), searched)
         IN r.ok /\ TestDocument(ups, Tail(keys), r.searched)

\* Document.__init__: [ok, updates]; ok is FALSE when test_document raises.
Document(meta_records, bs) ==
    LET ups == PrepareUpdates(bs, meta_records, NoUpdates)
    IN [ok |-> TestDocument(ups, ups.keys, << >>), updates |-> ups]

\* No document is being constructed.
DocIdle ==
    /\ doc_pc = "idle"
    /\ doc_meta = << >>
    /\ doc_bundles = << >>
    /\ doc_updates = NoUpdates

\* Bundle numbers of the document under construction.
DocIds == 1 .. 3

\* All sequences over S of length at most n.
RECURSIVE SeqsUpTo(_, _)
SeqsUpTo(S, n) ==
    IF n = 0 THEN {<< >>}
    ELSE LET shorter == SeqsUpTo(S, n - 1)
         IN shorter \cup {Append(s, x) : s \in {t \in shorter : Len(t) = n - 1},
                                          x \in S}

\* The revision records inside bundle b for the confirmed pairs <<new, old>>,
\* in the order of the meta-bundle.
RECURSIVE Confirmations(_, _, _)
Confirmations(b, pairs, confirmed) ==
    IF pairs = << >> THEN << >>
    ELSE (IF Head(pairs)[1] = b /\ Head(pairs) \in confirmed
          THEN <<RevisionRec(Head(pairs)[1], Head(pairs)[2])>> ELSE << >>)
            \o Confirmations(b, Tail(pairs), confirmed)

InitDoc ==
    /\ doc_pc = "new"
    /\ \E pairs \in SeqsUpTo(DocIds \X DocIds, MaxRevisions) :
        \E confirmed \in SUBSET SeqToSet(pairs) :
          /\ doc_meta = [i \in 1 .. Len(pairs) |->
                            RevisionRec(pairs[i][1], pairs[i][2])]
          /\ doc_bundles = [b \in DocIds |->
                            <<EntityRec(1, {})>>
                              \o Confirmations(b, pairs, confirmed)]
    /\ doc_updates = NoUpdates
    /\ GenIdle
    /\ SearchIdle
    /\ OtherIdle

\* Document.__init__ returns.
LoadDocument ==
    /\ doc_pc = "new"
    /\ Document(doc_meta, doc_bundles).ok
    /\ doc_updates' = Document(doc_meta, doc_bundles).updates
    /\ doc_pc' = "loaded"
    /\ UNCHANGED <<otherVars, genVars, searchVars, doc_meta, doc_bundles>>

\* Document.__init__ raises pr.Error("Cycle detected!").
LoadDocumentCycle ==
    /\ doc_pc = "new"
    /\ ~Document(doc_meta, doc_bundles).ok
    /\ doc_updates' = Document(doc_meta, doc_bundles).updates
    /\ doc_pc' = "error"
    /\ UNCHANGED <<otherVars, genVars, searchVars, doc_meta, doc_bundles>>

NextDoc ==
    \/ LoadDocument
    \/ LoadDocumentCycle

SpecDoc == InitDoc /\ [][NextDoc]_vars

\* ---------------------------------------------------- generator: helpers

\* The unified entity specification (entity_ID, [has_provenance], [utilized]).
EntitySpec(id, hp, ders) == <<id, hp, ders>>

\* The records Creator.bundle_with_entities adds for one entity: the entity,
\* then one derivation per utilized entity.
RECURSIVE DerivationsOf(_, _)
DerivationsOf(g, ders) ==
    IF ders = << >> THEN << >>
    ELSE <<DerivationRec(g, Head(ders))>> \o DerivationsOf(g, Tail(ders))

RECURSIVE EntityRecords(_)
EntityRecords(entities) ==
    IF entities = << >> THEN << >>
    ELSE LET e == Head(entities)
         IN <<EntityRec(e[1], SeqToSet(e[2]))>> \o DerivationsOf(e[1], e[3])
                \o EntityRecords(Tail(entities))

\* LinkedList.remove applied to the first node holding value v.
RECURSIVE RemoveFirst(_, _)
RemoveFirst(s, v) ==
    IF s = << >> THEN << >>
    ELSE IF Head(s) = v THEN Tail(s)
    ELSE <<Head(s)>> \o RemoveFirst(Tail(s), v)

\* The scan of exclude_tokens in bundle_with_entities: some node holds the id.
ExcludesToken_NeverMatches(excl, bundle_id) == FALSE

ExcludesToken(excl, bundle_id) == bundle_id \in SeqToSet(excl)

\* Creator.bundle: self.bundle_ID += 1
NextBundleID_SkipsOne(id) == id + 2

NextBundleID(id) == id + 1

\* The token entity and its Token-typed derivation, as sign_bundle and
\* bundle_with_entities add them to the meta-bundle.
TokenRecords(bundle_id) ==
    << Rec("token", bundle_id, None, None, {}),
       Rec("tokenDer", None, bundle_id, bundle_id, {}) >>

\* The generator's mutable data as one value.
GenState ==
    [bundle_ID |-> bundle_ID, bundles |-> bundles, meta |-> meta,
     exclude_tokens |-> exclude_tokens, signed_len |-> signed_len,
     skipped_merges |-> skipped_merges]

\* Creator.bundle(specialization, create_new_spec)
CreatorBundle(g, specialization, create_new_spec) ==
    LET id == NextBundleID(g.bundle_ID)
        fresh == \/ specialization = None
                 \/ create_new_spec
                 \/ id \in merges_forks[1]
        new_specialization == IF fresh THEN id ELSE specialization
        baseRecs ==
            IF fresh
            THEN <<Rec("base", id, None, None, {})>> \o
                 (IF specialization # None
                  THEN <<Rec("baseDer", None, id, specialization, {})>>
                  ELSE << >>)
            ELSE << >>
    IN [g EXCEPT
          !.bundle_ID = id,
          !.meta = @ \o <<Rec("bundle", id, None, None, {})>> \o baseRecs
                     \o <<Rec("spec", None, id, new_specialization, {})>>,
          !.bundles = Put(@, id, [records |-> << >>,
                                  spec |-> new_specialization])]

\* Creator.bundle_with_entities(entities, bundle) for an existing bundle:
\* the entities and derivations, then the token unless excluded.
BundleWithEntities(g, entities, bundle_id) ==
    LET g1 == [g EXCEPT !.bundles[bundle_id].records =
                            @ \o EntityRecords(entities)]
    IN IF ExcludesToken(g1.exclude_tokens, bundle_id)
       THEN [g1 EXCEPT !.exclude_tokens = RemoveFirst(@, bundle_id)]
       ELSE [g1 EXCEPT !.meta = @ \o TokenRecords(bundle_id),
                       !.signed_len = Put(@, bundle_id,
                                          Len(g1.bundles[bundle_id].records))]

\* update_bundle skips the records typed Revision.
SkippedAsRevision_Never(record) == FALSE

SkippedAsRevision(record) == IsRevisionTyped(record)

\* The filter of UpdateManager.update_bundle: the record is copied.
Copied(record, deletions) ==
    /\ ~SkippedAsRevision(record)
    /\ \A i \in 1 .. Len(deletions) :
          /\ ~(IsProvDerivation(record) /\ record.gen = deletions[i])
          /\ ~(record.kind = "entity" /\ record.id = deletions[i])

\* UpdateManager.update_bundle(bundle, new_bundle, update)
UpdateBundle(g, src, tgt, update) ==
    LET Keep(record) == Copied(record, update[2])
        g1 == [g EXCEPT !.bundles[tgt].records =
                           @ \o SelectSeq(g.bundles[src].records, Keep)]
    IN BundleWithEntities(g1, update[3], tgt)

\* One iteration of the loop of UpdateManager.create_updates, for an update
\* whose source bundle exists.
CreateUpdate(g, update) ==
    LET src == update[1][1]
        specialization == g.bundles[src].spec
        merge == Len(update[1]) = 2
        new_specialization ==
            IF merge /\ update[1][2] \in DOMAIN g.bundles
            THEN g.bundles[update[1][2]].spec ELSE None
        g1 == IF merge
              THEN [g EXCEPT !.meta = Append(@,
                      Rec("baseDer", None, new_specialization,
                          specialization, {}))]
              ELSE CreatorBundle(g, specialization, src \in merges_forks[2])
        tgt == IF merge THEN update[1][2] ELSE g1.bundle_ID
    IN IF tgt \notin DOMAIN g1.bundles
       THEN [g1 EXCEPT !.skipped_merges = @ \cup {tgt}]
       ELSE UpdateBundle(
              [g1 EXCEPT !.meta = Append(@, RevisionRec(tgt, src)),
                         !.bundles[tgt].records =
                             Append(@, RevisionRec(tgt, src))],
              src, tgt, update)

\* DocumentData.validate_updates: the merge targets, in input order.
RECURSIVE MergeTargets(_)
MergeTargets(us) ==
    IF us = << >> THEN << >>
    ELSE (IF Len(Head(us)[1]) = 2 THEN <<Head(us)[1][2]>> ELSE << >>)
            \o MergeTargets(Tail(us))

\* get_merges_forks without the second loop: no source is a fork.
GetMergesForks_NoForks(excl, us) == <<SeqToSet(excl), {}>>

\* DocumentData.get_merges_forks
GetMergesForks(excl, us) ==
    << SeqToSet(excl),
       {s \in {us[i][1][1] : i \in 1 .. Len(us)} :
            \E i, j \in 1 .. Len(us) :
                i < j /\ us[i][1][1] = s /\ us[j][1][1] = s} >>

\* The key of the meta-bundle in DocumentData.bundles.
MetaKey == -1

\* DocumentGenerator.invalidate_bundle_token: the loop over the identifiers;
\* ok is FALSE when data.bundles holds nothing under an identifier
\* (ValueError). Under MetaKey it holds the meta-bundle, which gets the
\* entity -1: in_meta are the records added to the meta-bundle.
RECURSIVE InvalidateAll(_, _)
InvalidateAll(bs, ids) ==
    IF ids = << >>
    THEN [ok |-> TRUE, bundles |-> bs, in_meta |-> << >>]
    ELSE IF Head(ids) = MetaKey
    THEN [InvalidateAll(bs, Tail(ids)) EXCEPT
             !.in_meta = <<EntityRec(-1, {})>> \o @]
    ELSE IF Head(ids) \notin DOMAIN bs
    THEN [ok |-> FALSE, bundles |-> bs, in_meta |-> << >>]
    ELSE InvalidateAll(
           [bs EXCEPT ![Head(ids)].records = Append(@, EntityRec(-1, {}))],
           Tail(ids))

\* ------------------------------------------------------ generator: inputs

\* Entities of the i-th bundle specification.
BundleSpec(i) ==
    IF i % 2 = 1 THEN <<EntitySpec(1, << >>, << >>)>>
    ELSE <<EntitySpec(1, << >>, <<2>>), EntitySpec(2, <<<<"a", 1>>>>, << >>)>>

\* Deletion list and new entities of an update.
UpdateBodies ==
    { << << >>, << >> >>,
      << <<1>>, <<EntitySpec(2, << >>, <<1>>)>> >> }

\* from-to part of an update: (source,) or (source, target).
UpdateHeads ==
    {<<s>> : s \in RefIds} \cup {<<s, t>> : s \in RefIds, t \in RefIds}

InitGen ==
    /\ gen_pc = "validate"
    /\ \E n \in 0 .. MaxBundles : bundles_entities = [i \in 1 .. n |-> BundleSpec(i)]
    /\ \E heads \in SeqsUpTo(UpdateHeads, MaxUpdates), body \in UpdateBodies :
          updates = [i \in 1 .. Len(heads) |-> <<heads[i], body[1], body[2]>>]
    /\ invalidate_bundles \in InvalidateLists
    /\ start_id \in StartIds
    /\ exclude_tokens = << >>
    /\ merges_forks = <<{}, {}>>
    /\ bundle_ID = 0
    /\ bundles = << >>
    /\ meta = << >>
    /\ next_item = 1
    /\ written = FALSE
    /\ signed_len = << >>
    /\ skipped_merges = {}
    /\ DocIdle
    /\ SearchIdle
    /\ OtherIdle

\* ----------------------------------------------------- generator: actions

\* DocumentData.__init__: exclude_tokens, merges_forks and the Creator.
Validate ==
    /\ gen_pc = "validate"
    /\ exclude_tokens' = MergeTargets(updates)
    /\ merges_forks' = GetMergesForks(MergeTargets(updates), updates)
    /\ bundle_ID' = start_id - 1
    /\ gen_pc' = "bundles"
    /\ UNCHANGED <<otherVars, docVars, searchVars, signed_len, skipped_merges, bundles_entities, updates, invalidate_bundles, start_id,
                   bundles, meta, next_item, written>>

\* One iteration of create_document_without_updates.
CreateBundle ==
    /\ gen_pc = "bundles"
    /\ next_item <= Len(bundles_entities)
    /\ LET g0 == CreatorBundle(GenState, None, FALSE)
           g1 == BundleWithEntities(g0, bundles_entities[next_item],
                                    g0.bundle_ID)
       IN /\ bundle_ID' = g1.bundle_ID
          /\ bundles' = g1.bundles
          /\ meta' = g1.meta
          /\ exclude_tokens' = g1.exclude_tokens
          /\ signed_len' = g1.signed_len
          /\ skipped_merges' = g1.skipped_merges
    /\ next_item' = next_item + 1
    /\ UNCHANGED <<otherVars, docVars, searchVars, gen_pc, bundles_entities, updates, invalidate_bundles,
                   start_id, merges_forks, written>>

\* create_document_without_updates returns; create_updates starts.
StartUpdates ==
    /\ gen_pc = "bundles"
    /\ next_item > Len(bundles_entities)
    /\ gen_pc' = "updates"
    /\ next_item' = 1
    /\ UNCHANGED <<otherVars, docVars, searchVars, signed_len, skipped_merges, bundles_entities, updates, invalidate_bundles, start_id,
                   exclude_tokens, merges_forks, bundle_ID, bundles, meta,
                   written>>

\* One iteration of the loop of create_updates whose source bundle exists.
ApplyUpdate ==
    /\ gen_pc = "updates"
    /\ next_item <= Len(updates)
    /\ updates[next_item][1][1] \in DOMAIN bundles
    /\ LET g1 == CreateUpdate(GenState, updates[next_item])
       IN /\ bundle_ID' = g1.bundle_ID
          /\ bundles' = g1.bundles
          /\ meta' = g1.meta
          /\ exclude_tokens' = g1.exclude_tokens
          /\ signed_len' = g1.signed_len
          /\ skipped_merges' = g1.skipped_merges
    /\ next_item' = next_item + 1
    /\ UNCHANGED <<otherVars, docVars, searchVars, gen_pc, bundles_entities, updates, invalidate_bundles,
                   start_id, merges_forks, written>>

\* create_updates raises pr.Error: the source bundle was not found.
UpdateSourceMissing ==
    /\ gen_pc = "updates"
    /\ next_item <= Len(updates)
    /\ updates[next_item][1][1] \notin DOMAIN bundles
    /\ gen_pc' = "failed"
    /\ UNCHANGED <<otherVars, docVars, searchVars, signed_len, skipped_merges, bundles_entities, updates, invalidate_bundles, start_id,
                   exclude_tokens, merges_forks, bundle_ID, bundles, meta,
                   next_item, written>>

\* invalidate_bundle_token with every identifier naming a bundle.
Invalidate ==
    /\ gen_pc = "updates"
    /\ next_item > Len(updates)
    /\ InvalidateAll(bundles, invalidate_bundles).ok
    /\ bundles' = InvalidateAll(bundles, invalidate_bundles).bundles
    /\ meta' = meta \o InvalidateAll(bundles, invalidate_bundles).in_meta
    /\ gen_pc' = "serialize"
    /\ UNCHANGED <<otherVars, docVars, searchVars, signed_len, skipped_merges, bundles_entities, updates, invalidate_bundles, start_id,
                   exclude_tokens, merges_forks, bundle_ID, next_item,
                   written>>

\* invalidate_bundle_token raises ValueError at the first missing identifier.
InvalidateMissing ==
    /\ gen_pc = "updates"
    /\ next_item > Len(updates)
    /\ ~InvalidateAll(bundles, invalidate_bundles).ok
    /\ bundles' = InvalidateAll(bundles, invalidate_bundles).bundles
    /\ meta' = meta \o InvalidateAll(bundles, invalidate_bundles).in_meta
    /\ gen_pc' = "failed"
    /\ UNCHANGED <<otherVars, docVars, searchVars, signed_len, skipped_merges, bundles_entities, updates, invalidate_bundles, start_id,
                   exclude_tokens, merges_forks, bundle_ID, next_item,
                   written>>

\* document.serialize and file.write
Serialize ==
    /\ gen_pc = "serialize"
    /\ written' = TRUE
    /\ gen_pc' = "done"
    /\ UNCHANGED <<otherVars, docVars, searchVars, signed_len, skipped_merges, bundles_entities, updates, invalidate_bundles, start_id,
                   exclude_tokens, merges_forks, bundle_ID, bundles, meta,
                   next_item>>

NextGen ==
    \/ Validate
    \/ CreateBundle
    \/ StartUpdates
    \/ ApplyUpdate
    \/ UpdateSourceMissing
    \/ Invalidate
    \/ InvalidateMissing
    \/ Serialize

SpecGen == InitGen /\ [][NextGen]_vars

\* ------------------------------------------------------ search: documents

\* A has_provenance reference "<path>/bundle<id>" is the pair <<path, id>>.
Ref(path, id) == <<path, id>>

\* The key (document.path, bundle.identifier, searched_entity).
Key(path, id, entity) == <<path, id, entity>>

\* The key add_invalid_output writes in strict mode: bundle.identifier alone.
IdentifierKey(id) == <<"", id, None>>

\* The place of a path among the paths, in lexicographic order.
PathRank(path) ==
    IF path = "a" THEN 1 ELSE IF path = "b" THEN 2
    ELSE IF path = "c" THEN 3 ELSE 4

\* DocumentDeserializer.deserialize: the file opens and parses.
CanDeserialize(path) == path \in DOMAIN files

\* DocumentDeserializer.document: a Document is returned; it is None when the
\* file cannot be read or when Document.__init__ raises pr.Error.
CanLoad(path) ==
    \/ path \in documents
    \/ /\ CanDeserialize(path)
       /\ Document(files[path].meta, files[path].bundles).ok

\* Document.updates of the document at path.
DocUpdates(path) ==
    Document(files[path].meta, files[path].bundles).updates

\* Document.bundles[id].records
RecordsOf(path, id) == files[path].bundles[id]

\* Utilites.get_entity(entity_id, bundle) is not None
GetEntity(records, entity) ==
    \E i \in 1 .. Len(records) :
        records[i].kind = "entity" /\ records[i].id = entity

\* Validator.validate_record: the hash stored in the token equals the hash of
\* the bundle; a bundle changed after signing (the entity -1) has another hash.
ValidateRecord(records) == ~GetEntity(records, -1)

\* Validator.valid_bundle(meta, bundle)
ValidBundle(path, id) ==
    LET tokens == {i \in 1 .. Len(files[path].meta) :
                      /\ files[path].meta[i].kind = "tokenDer"
                      /\ files[path].meta[i].used = id}
    IN Cardinality(tokens) = 1 /\ ValidateRecord(RecordsOf(path, id))

\* All orders in which the elements of a set may be iterated.
RECURSIVE Orders(_)
Orders(S) ==
    IF S = {} THEN {<< >>}
    ELSE UNION {{<<x>> \o t : t \in Orders(S \ {x})} : x \in S}

\* search_traverse: the used entities of the derivations generating entity.
\* Revision records are derivations too, but they generate a bundle.
RelatedEntities_None(records, entity) == {}

RelatedEntities(records, entity) ==
    {records[i].used : i \in {j \in 1 .. Len(records) :
                                 /\ records[j].kind = "derivation"
                                 /\ records[j].gen = entity}}

\* search_traverse: next_bundles, the has_provenance values of every
\* occurrence of the entity, each attribute set in any order.
RECURSIVE NextBundles(_, _)
NextBundles(records, entity) ==
    IF records = << >> THEN {<< >>}
    ELSE IF Head(records).kind = "entity" /\ Head(records).id = entity
    THEN {a \o b : a \in Orders(Head(records).hp),
                   b \in NextBundles(Tail(records), entity)}
    ELSE NextBundles(Tail(records), entity)

\* ----------------------------------------------------- search: SearchData

\* The mutable fields of SearchData as one value.
SData ==
    [valid_bundles |-> valid_bundles, invalid_bundles |-> invalid_bundles,
     postpone_updates |-> postpone_updates,
     searched_bundles |-> searched_bundles,
     bundles_validity |-> bundles_validity, output_valid |-> output_valid,
     output_invalid |-> output_invalid, output_low |-> output_low,
     validations |-> validations, remarked |-> remarked]

\* An assignment self.searched_bundles[key] = value.
MarkSearched(s, key, value) ==
    [s EXCEPT
       !.searched_bundles = Put(@, key, value),
       !.remarked = IF /\ key \in DOMAIN s.searched_bundles
                       /\ s.searched_bundles[key][1]
                       /\ s.searched_bundles[key] # value
                    THEN @ \cup {key} ELSE @]

\* SearchData.get_validity: [s, ret]
get_validity_AlwaysValid(s, path, id) == [s |-> s, ret |-> TRUE]

\* get_validity: "if valid is not None", a stored verdict of either value.
IsCached_OnlyTrue(s, key) ==
    key \in DOMAIN s.bundles_validity /\ s.bundles_validity[key]

IsCached(s, key) == key \in DOMAIN s.bundles_validity

get_validity(s, path, id) ==
    IF IsCached(s, <<path, id>>)
    THEN [s |-> s, ret |-> s.bundles_validity[<<path, id>>]]
    ELSE [s |-> [s EXCEPT !.bundles_validity =
                              Put(@, <<path, id>>, ValidBundle(path, id)),
                          !.validations = Append(@, <<path, id>>)],
          ret |-> ValidBundle(path, id)]

\* SearchData.check_prev_validity: [s, ret]
RECURSIVE check_prev_validity(_, _, _, _, _, _)
RECURSIVE check_prev_older(_, _, _, _, _, _)
check_prev_validity(s, path, bundle, entity, still_valid, mark_searched) ==
    IF ~still_valid /\ ~mark_searched THEN [s |-> s, ret |-> FALSE]
    ELSE LET older_bundles == OlderIds(DocUpdates(path), bundle)
             newer_bundles == NewerIds(DocUpdates(path), bundle)
             mark == /\ mark_searched
                     /\ \A i \in 1 .. Len(newer_bundles) :
                          LET k == Key(path, newer_bundles[i], entity)
                          IN /\ k \in DOMAIN s.searched_bundles
                             /\ s.searched_bundles[k][1]
             s1 == MarkSearched(s, Key(path, bundle, entity),
                                <<mark, TRUE>>)
         IN check_prev_older(s1, path, entity, still_valid, mark,
                             older_bundles)

\* The loop "for prev in older_bundles" of check_prev_validity; get_validity
\* is called only when the recursive call returned True.
check_prev_older(s, path, entity, still_valid, mark_searched, ids) ==
    IF ids = << >> THEN [s |-> s, ret |-> still_valid]
    ELSE LET c == check_prev_validity(s, path, Head(ids), entity,
                                      still_valid, mark_searched)
             v == IF c.ret THEN get_validity(c.s, path, Head(ids))
                  ELSE [s |-> c.s, ret |-> FALSE]
         IN check_prev_older(v.s, path, entity,
                             still_valid /\ c.ret /\ v.ret,
                             mark_searched, Tail(ids))

\* SearchData.add_valid_output: [s, ret]
\* add_valid_output: "if still_valid: if postpone:"
Postpones_Never(still_valid, postpone) == FALSE

Postpones(still_valid, postpone) == still_valid /\ postpone

\* add_valid_output: "if still_valid:" chooses the list of the valid bundles.
EmitsAsValid_Always(still_valid) == TRUE

EmitsAsValid(still_valid) == still_valid

add_valid_output(s, path, id, entity, still_valid, postpone) ==
    IF Postpones(still_valid, postpone)
    THEN [s |-> [s EXCEPT !.postpone_updates =
                             Append(@, Key(path, id, entity))],
          ret |-> TRUE]
    ELSE LET s1 == IF EmitsAsValid(still_valid)
                   THEN [s EXCEPT
                           !.valid_bundles = Append(@, Key(path, id, entity)),
                           !.output_valid = Append(@, Key(path, id, entity))]
                   ELSE [s EXCEPT
                           !.invalid_bundles = Append(@, Key(path, id, entity)),
                           !.output_low = Append(@, Key(path, id, entity))]
         IN [s |-> check_prev_validity(s1, path, id, entity, TRUE, TRUE).s,
             ret |-> TRUE]

\* add_invalid_output: "if self.strict"
StrictDropsInvalid_Never(mode) == FALSE

StrictDropsInvalid(mode) == mode

\* SearchData.add_invalid_output: [s, ret]
add_invalid_output(s, path, id, entity) ==
    IF StrictDropsInvalid(strict)
    THEN [s |-> MarkSearched(s, IdentifierKey(id), <<TRUE, FALSE>>),
          ret |-> FALSE]
    ELSE LET s1 == [s EXCEPT
                      !.invalid_bundles = Append(@, Key(path, id, entity)),
                      !.output_invalid = Append(@, Key(path, id, entity))]
         IN [s |-> check_prev_validity(s1, path, id, entity, FALSE, TRUE).s,
             ret |-> TRUE]

\* entity_check: the test that sets postpone inside the loop.
TraversesInvalidUpdate_Never(current_valid, has_previous, initial) == FALSE

TraversesInvalidUpdate(current_valid, has_previous, initial) ==
    ~current_valid /\ has_previous /\ ~initial

\* entity_check: "if not found:", a newer version has yielded the entity.
YieldedByNewer_Ignored(found) == FALSE

YieldedByNewer(found) == found

\* SearchData.entity_check: [s, ret]. has_previous stands for
\* "previous_bundle is not None".
RECURSIVE entity_check(_, _, _, _, _, _, _, _)
RECURSIVE entity_check_newer(_, _, _, _, _, _, _, _, _, _, _)
entity_check(s, path, id, entity, still_valid, postpone, has_previous, initial) ==
    LET key == Key(path, id, entity)
    IN IF key \in DOMAIN s.searched_bundles /\ s.searched_bundles[key][1]
       THEN [s |-> s, ret |-> s.searched_bundles[key][2]]
       ELSE
         LET next_ids == NewerIds(DocUpdates(path), id)
             v == get_validity(s, path, id)
             l == entity_check_newer(v.s, path, id, entity, still_valid,
                                     postpone, has_previous, initial, v.ret,
                                     next_ids, FALSE)
         IN IF YieldedByNewer(l.found) THEN [s |-> l.s, ret |-> TRUE]
            ELSE IF ~GetEntity(RecordsOf(path, id), entity)
            THEN [s |-> MarkSearched(l.s, key, <<TRUE, FALSE>>),
                  ret |-> FALSE]
            ELSE IF v.ret
            THEN add_valid_output(l.s, path, id, entity, still_valid,
                                  l.postpone)
            ELSE add_invalid_output(l.s, path, id, entity)

\* The loop "for next_id in next_ids" of entity_check: [s, found, postpone]
entity_check_newer(s, path, id, entity, still_valid, postpone, has_previous, initial, current_valid, ids, found) ==
    IF ids = << >>
    THEN [s |-> s, found |-> found, postpone |-> postpone]
    ELSE
      LET key == Key(path, Head(ids), entity)
          known == key \in DOMAIN s.searched_bundles
          found1 == found \/ (known /\ s.searched_bundles[key][2])
          postpone1 == postpone \/ TraversesInvalidUpdate(current_valid,
                                                          has_previous, initial)
          r == entity_check(s, path, Head(ids), entity, still_valid,
                            postpone1, TRUE, initial)
      IN IF known /\ s.searched_bundles[key][1]
         THEN entity_check_newer(s, path, id, entity, still_valid, postpone,
                                 has_previous, initial, current_valid,
                                 Tail(ids), found1)
         ELSE entity_check_newer(r.s, path, id, entity, still_valid,
                                 postpone1, has_previous, initial,
                                 current_valid, Tail(ids), r.ret \/ found1)

\* The bundles of a document in the order of Document.bundles.
RECURSIVE Ascending(_)
Ascending(S) ==
    IF S = {} THEN << >>
    ELSE LET least == CHOOSE x \in S : \A y \in S : x <= y
         IN <<least>> \o Ascending(S \ {least})

\* The test of SearchData.prepare_search: the bundle is an initial bundle.
IsSeed_AnyOldest(s, id) ==
    /\ OlderIds(DocUpdates(initial_path), id) = << >>
    /\ IdentifierKey(id) \notin DOMAIN s.searched_bundles

IsSeed(s, id) ==
    /\ OlderIds(DocUpdates(initial_path), id) = << >>
    /\ IdentifierKey(id) \notin DOMAIN s.searched_bundles
    /\ GetEntity(RecordsOf(initial_path, id), searched_entity)

\* SearchData.prepare_search: the loop over initial_document.bundles.
RECURSIVE prepare_search(_, _)
prepare_search(s, ids) ==
    IF ids = << >> THEN s
    ELSE IF IsSeed(s, Head(ids))
    THEN prepare_search(
           entity_check(s, initial_path, Head(ids), searched_entity, TRUE,
                        FALSE, FALSE, TRUE).s,
           Tail(ids))
    ELSE prepare_search(s, Tail(ids))

\* The bundles prepare_search calls entity_check for.
RECURSIVE SeedCalls(_, _)
SeedCalls(s, ids) ==
    IF ids = << >> THEN {}
    ELSE IF IsSeed(s, Head(ids))
    THEN {Head(ids)}
           \cup SeedCalls(entity_check(s, initial_path, Head(ids),
                                       searched_entity, TRUE, FALSE, FALSE,
                                       TRUE).s,
                          Tail(ids))
    ELSE SeedCalls(s, Tail(ids))

\* search_traverse: the loop over related_entities, taken in the given order.
RECURSIVE traverse_related(_, _, _, _, _)
traverse_related(s, path, id, still_valid, related) ==
    IF related = << >> THEN s
    ELSE traverse_related(
           entity_check(s, path, id, Head(related), still_valid, FALSE,
                        FALSE, FALSE).s,
           path, id, still_valid, Tail(related))

\* search_traverse: the reference names a bundle of a document that loads.
Resolves(ref) == CanLoad(ref[1]) /\ ref[2] \in DOMAIN files[ref[1]].bundles

\* search_traverse: "continue" after a reference whose document or bundle
\* is None; the loop goes on with the references that follow.
AfterUnresolved_Stop(refs) == << >>

AfterUnresolved(refs) == Tail(refs)

\* DocumentDeserializer.document in the loop over next_bundles: the paths
\* read from disk; only a path of SearchData.documents is not read again.
RECURSIVE Deserialized(_)
Deserialized(refs) ==
    IF refs = << >> THEN << >>
    ELSE (IF Head(refs)[1] \notin documents /\ CanDeserialize(Head(refs)[1])
          THEN <<Head(refs)[1]>> ELSE << >>)
           \o Deserialized(Tail(refs))

\* search_traverse: the loop over next_bundles.
RECURSIVE traverse_references(_, _, _, _)
traverse_references(s, entity, still_valid, refs) ==
    IF refs = << >> THEN s
    ELSE IF ~Resolves(Head(refs))
    THEN traverse_references(s, entity, still_valid, AfterUnresolved(refs))
    ELSE traverse_references(
           entity_check(s, Head(refs)[1], Head(refs)[2], entity, still_valid,
                        FALSE, FALSE, FALSE).s,
           entity, still_valid, Tail(refs))

\* Search.search_traverse(bundle_entity, still_valid)
search_traverse(s, bundle_entity, still_valid, related, refs) ==
    traverse_references(
        traverse_related(s, bundle_entity[1], bundle_entity[2], still_valid,
                         related),
        bundle_entity[3], still_valid, refs)

\* The body of the loop over postpone_updates in Search.search.
RECURSIVE promote_postponed(_, _)
promote_postponed(s, postponed) ==
    IF postponed = << >> THEN s
    ELSE IF Head(postponed) \in DOMAIN s.searched_bundles
    THEN promote_postponed(s, Tail(postponed))
    ELSE promote_postponed(
           add_valid_output(s, Head(postponed)[1], Head(postponed)[2],
                            Head(postponed)[3], FALSE, FALSE).s,
           Tail(postponed))

\* ---------------------------------------------------------- search: inputs

\* Bundle numbers of the entry document.
SearchIds == 1 .. 3

\* Confirmed revisions <<new, old>> of the entry document: none, one update,
\* a chain, a fork, a merge, and a fork joined again.
RevisionSets ==
    { << >>,
      << <<2, 1>> >>,
      << <<2, 1>>, <<3, 2>> >>,
      << <<2, 1>>, <<3, 1>> >>,
      << <<3, 1>>, <<3, 2>> >>,
      << <<2, 1>>, <<3, 1>>, <<3, 2>> >> }

\* 0: no derivation; 1: every bundle with entity 1 also holds entity 2 and the
\* derivation of 1 from 2; 2: as 1, but only the last bundle holds entity 2.
DerivationModes == {0, 1, 2}

\* The records of one bundle of a file.
FileBundle(id, last, pairs, has_entity, mode, invalid, hp) ==
    (IF id \in has_entity
     THEN <<EntityRec(1, hp[id])>>
            \o (IF mode # 0 THEN <<DerivationRec(1, 2)>> ELSE << >>)
     ELSE << >>)
    \o (IF (mode = 1 /\ id \in has_entity) \/ (mode = 2 /\ id = last)
        THEN <<EntityRec(2, {})>> ELSE << >>)
    \o Confirmations(id, pairs, SeqToSet(pairs))
    \o (IF id \in invalid THEN <<EntityRec(-1, {})>> ELSE << >>)

\* The tokens of the bundles ids, in ascending order.
RECURSIVE FileTokens(_)
FileTokens(ids) ==
    IF ids = << >> THEN << >>
    ELSE TokenRecords(Head(ids)) \o FileTokens(Tail(ids))

\* A file: the records of its meta-bundle and of its content bundles.
File(ids, pairs, has_entity, mode, invalid, hp) ==
    [meta |-> FileTokens(Ascending(ids))
                \o [i \in 1 .. Len(pairs) |->
                       RevisionRec(pairs[i][1], pairs[i][2])],
     bundles |-> [id \in ids |->
                    FileBundle(id, CHOOSE x \in ids : \A y \in ids : y <= x,
                               pairs, has_entity, mode, invalid, hp)]]

\* has_provenance references of entity 1 in the bundles of a file.
NoRefs == [id \in SearchIds |-> {}]

RefsAt(id, refs) == [NoRefs EXCEPT ![id] = refs]

\* The second file "b": two versions of one bundle, both holding entity 1.
FileB(invalid, refs) ==
    File({1, 2}, << <<2, 1>> >>, {1, 2}, 0, invalid, RefsAt(2, refs))

\* The third file "c": two bundles that are confirmed revisions of each other.
FileC == File({1, 2}, << <<2, 1>>, <<1, 2>> >>, {1, 2}, 0, {}, NoRefs)

\* Confirmed revisions of an entry document that form a cycle: two bundles
\* revising each other, a cycle of three, and a bundle revising itself.
CyclicRevisionSets ==
    { << <<2, 1>>, <<1, 2>> >>,
      << <<2, 1>>, <<3, 2>>, <<1, 3>> >>,
      << <<1, 1>> >> }

\* The references of the entry document and the other files on disk.
RefWorlds ==
    { [hp |-> NoRefs, others |-> << >>],
      [hp |-> RefsAt(1, {Ref("a", 1)}), others |-> << >>],
      [hp |-> RefsAt(1, {Ref("a", 3)}), others |-> << >>],
      [hp |-> RefsAt(3, {Ref("a", 1)}), others |-> << >>],
      [hp |-> [RefsAt(1, {Ref("a", 3)}) EXCEPT ![3] = {Ref("a", 1)}],
       others |-> << >>],
      [hp |-> RefsAt(1, {Ref("a", 2), Ref("a", 3)}), others |-> << >>],
      [hp |-> RefsAt(1, {Ref("x", 1)}), others |-> << >>],
      [hp |-> RefsAt(1, {Ref("b", 1)}),
       others |-> [p \in {"b"} |-> FileB({}, {Ref("a", 1)})]],
      [hp |-> RefsAt(1, {Ref("b", 1)}),
       others |-> [p \in {"b"} |-> FileB({1}, {})]],
      [hp |-> RefsAt(1, {Ref("b", 1)}),
       others |-> [p \in {"b"} |-> FileB({2}, {Ref("a", 2)})]],
      [hp |-> RefsAt(2, {Ref("b", 1), Ref("b", 7)}),
       others |-> [p \in {"b"} |-> FileB({}, {})]],
      [hp |-> RefsAt(1, {Ref("c", 1), Ref("b", 1)}),
       others |-> [p \in {"b", "c"} |->
                     IF p = "b" THEN FileB({}, {}) ELSE FileC]] }

\* The revisions of the entry document with the rest of the disk; an entry
\* document with a cycle of revisions holds no reference.
EntryWorlds ==
    (RevisionSets \X RefWorlds)
        \cup (CyclicRevisionSets \X {[hp |-> NoRefs, others |-> << >>]})

\* Largest number of calls of search_traverse followed in one search.
MaxTraversals == 8

InitSearch ==
    /\ search_pc = "new"
    /\ initial_path = "a"
    /\ searched_entity = 1
    /\ strict \in BOOLEAN
    /\ \E case \in EntryWorlds, has_entity \in SUBSET SearchIds,
          mode \in DerivationModes, invalid \in SUBSET SearchIds :
          files = [p \in {"a"} \cup DOMAIN case[2].others |->
                     IF p = "a"
                     THEN File(SearchIds, case[1], has_entity, mode, invalid,
                               case[2].hp)
                     ELSE case[2].others[p]]
    /\ documents = {}
    /\ valid_bundles = << >>
    /\ invalid_bundles = << >>
    /\ postpone_updates = << >>
    /\ searched_bundles = << >>
    /\ bundles_validity = << >>
    /\ output_valid = << >>
    /\ output_invalid = << >>
    /\ output_low = << >>
    /\ traversed = << >>
    /\ entries = {}
    /\ result = << >>
    /\ printed = << >>
    /\ validations = << >>
    /\ loads = << >>
    /\ remarked = {}
    /\ GenIdle
    /\ DocIdle
    /\ OtherIdle

\* --------------------------------------------------------- search: actions

\* The fields of SearchData after a step.
SetData(s) ==
    /\ valid_bundles' = s.valid_bundles
    /\ invalid_bundles' = s.invalid_bundles
    /\ postpone_updates' = s.postpone_updates
    /\ searched_bundles' = s.searched_bundles
    /\ bundles_validity' = s.bundles_validity
    /\ validations' = s.validations
    /\ remarked' = s.remarked
    /\ output_valid' = s.output_valid
    /\ output_invalid' = s.output_invalid
    /\ output_low' = s.output_low

\* The outermost calls of entity_check made by one search_traverse.
TraverseEntries(bundle_entity, still_valid) ==
    LET records == RecordsOf(bundle_entity[1], bundle_entity[2])
    IN {<<bundle_entity[1], bundle_entity[2], e, FALSE, still_valid>> :
            e \in RelatedEntities(records, bundle_entity[3])}
       \cup {<<ref[1], ref[2], bundle_entity[3], FALSE, still_valid>> :
               ref \in {r \in UNION {records[i].hp :
                                        i \in {j \in 1 .. Len(records) :
                                                 /\ records[j].kind = "entity"
                                                 /\ records[j].id
                                                      = bundle_entity[3]}} :
                          Resolves(r)}}

\* Search.__init__ up to the end of SearchData.__init__: the entry document
\* is loaded and prepare_search has run.
SearchDataInit ==
    /\ search_pc = "new"
    /\ CanDeserialize(initial_path)
    /\ Document(files[initial_path].meta, files[initial_path].bundles).ok
    /\ documents' = {initial_path}
    /\ SetData(prepare_search(SData,
                              Ascending(DOMAIN files[initial_path].bundles)))
    /\ entries' = {<<initial_path, id, searched_entity, TRUE, TRUE>> :
                      id \in SeedCalls(SData,
                                       Ascending(DOMAIN files[initial_path]
                                                          .bundles))}
    /\ loads' = <<initial_path>>
    /\ search_pc' = "valid"
    /\ UNCHANGED <<otherVars, genVars, docVars, result, printed, files, strict, searched_entity,
                   initial_path, traversed>>

\* One iteration of the first loop of Search.search.
TraverseValid ==
    /\ search_pc = "valid"
    /\ valid_bundles # << >>
    /\ Len(traversed) < MaxTraversals
    /\ LET to_search == valid_bundles[Len(valid_bundles)]
           popped == [SData EXCEPT !.valid_bundles =
                                      SubSeq(@, 1, Len(@) - 1)]
           records == RecordsOf(to_search[1], to_search[2])
       IN /\ \E related \in Orders(RelatedEntities(records, to_search[3])),
               refs \in NextBundles(records, to_search[3]) :
                 /\ SetData(search_traverse(popped, to_search, TRUE,
                                            related, refs))
                 /\ loads' = loads \o Deserialized(refs)
          /\ traversed' = Append(traversed, <<to_search, TRUE>>)
          /\ entries' = entries \cup TraverseEntries(to_search, TRUE)
    /\ UNCHANGED <<otherVars, genVars, docVars, result, printed, search_pc, files, strict,
                   searched_entity, initial_path, documents>>

\* The loop over postpone_updates of Search.search.
PromotePostponed ==
    /\ search_pc = "valid"
    /\ valid_bundles = << >>
    /\ SetData(promote_postponed(SData, postpone_updates))
    /\ search_pc' = "invalid"
    /\ UNCHANGED <<otherVars, genVars, docVars, result, printed, files, strict, searched_entity,
                   initial_path, documents, traversed, entries, loads>>

\* One iteration of the last loop of Search.search.
TraverseInvalid ==
    /\ search_pc = "invalid"
    /\ invalid_bundles # << >>
    /\ Len(traversed) < MaxTraversals
    /\ LET to_search == invalid_bundles[Len(invalid_bundles)]
           popped == [SData EXCEPT !.invalid_bundles =
                                      SubSeq(@, 1, Len(@) - 1)]
           records == RecordsOf(to_search[1], to_search[2])
       IN /\ \E related \in Orders(RelatedEntities(records, to_search[3])),
               refs \in NextBundles(records, to_search[3]) :
                 /\ SetData(search_traverse(popped, to_search, FALSE,
                                            related, refs))
                 /\ loads' = loads \o Deserialized(refs)
          /\ traversed' = Append(traversed, <<to_search, FALSE>>)
          /\ entries' = entries \cup TraverseEntries(to_search, FALSE)
    /\ UNCHANGED <<otherVars, genVars, docVars, result, printed, search_pc, files, strict,
                   searched_entity, initial_path, documents>>

\* Search.__init__: Document.__init__ of the entry document raises
\* pr.Error("Cycle detected!"), which nothing catches.
SearchError ==
    /\ search_pc = "new"
    /\ CanDeserialize(initial_path)
    /\ ~Document(files[initial_path].meta, files[initial_path].bundles).ok
    /\ loads' = <<initial_path>>
    /\ search_pc' = "error"
    /\ UNCHANGED <<otherVars, genVars, docVars, result, printed, files,
                   strict, searched_entity, initial_path, documents,
                   validations, remarked,
                   valid_bundles, invalid_bundles, postpone_updates,
                   searched_bundles, bundles_validity, output_valid,
                   output_invalid, output_low, traversed, entries>>

\* The tuple returned by Search.search.
SearchResult_LowSecond(s) == <<s.output_valid, s.output_low, s.output_invalid>>

SearchResult(s) == <<s.output_valid, s.output_invalid, s.output_low>>

\* Search.search returns the three lists.
SearchReturn ==
    /\ search_pc = "invalid"
    /\ invalid_bundles = << >>
    /\ result' = SearchResult(SData)
    /\ search_pc' = "returned"
    /\ UNCHANGED <<otherVars, genVars, docVars, printed, files, strict, searched_entity,
                   validations, loads, remarked,
                   initial_path, documents, valid_bundles, invalid_bundles,
                   postpone_updates, searched_bundles, bundles_validity,
                   output_valid, output_invalid, output_low, traversed,
                   entries>>

\* ResultPrinter.sort_result: the key (path, bundle number, entity number).
sort_result(x) == <<PathRank(x[1]), x[2], x[3]>>

\* Tuple comparison of two keys of sort_result.
KeyLess(a, b) ==
    \/ a[1] < b[1]
    \/ a[1] = b[1] /\ a[2] < b[2]
    \/ a[1] = b[1] /\ a[2] = b[2] /\ a[3] < b[3]

\* x goes behind the items of the sorted list that are not greater.
RECURSIVE InsertResult(_, _)
InsertResult(x, sorted) ==
    IF sorted = << >> THEN <<x>>
    ELSE IF KeyLess(sort_result(x), sort_result(Head(sorted)))
    THEN <<x>> \o sorted
    ELSE <<Head(sorted)>> \o InsertResult(x, Tail(sorted))

RECURSIVE SortFrom(_, _)
SortFrom(list, sorted) ==
    IF list = << >> THEN sorted
    ELSE SortFrom(Tail(list), InsertResult(Head(list), sorted))

\* result.sort(key=ResultPrinter.sort_result)
SortResult_Unsorted(list) == list

SortResult(list) == SortFrom(list, << >>)

\* ResultPrinter.output after the search: pretty_print sorts each list in
\* place (the lists of the result are the lists of SearchData) and prints
\* it; valid first, then low credibility, then invalid.
PrettyPrint ==
    /\ search_pc = "returned"
    /\ output_valid' = SortResult(result[1])
    /\ output_low' = SortResult(result[3])
    /\ output_invalid' = SortResult(result[2])
    /\ result' = <<SortResult(result[1]), SortResult(result[2]),
                   SortResult(result[3])>>
    /\ printed' = <<SortResult(result[1]), SortResult(result[3]),
                    SortResult(result[2])>>
    /\ search_pc' = "printed"
    /\ UNCHANGED <<otherVars, genVars, docVars, files, strict, validations,
                   loads, remarked,
                   searched_entity, initial_path, documents, valid_bundles,
                   invalid_bundles, postpone_updates, searched_bundles,
                   bundles_validity, traversed, entries>>

NextSearch ==
    \/ SearchDataInit
    \/ SearchError
    \/ TraverseValid
    \/ PromotePostponed
    \/ TraverseInvalid
    \/ SearchReturn
    \/ PrettyPrint

SpecSearch == InitSearch /\ [][NextSearch]_vars

\* ------------------------------------------------- crypto: canonical bytes

\* Largest number of records of a bundle converted to bytes.
MaxRecords == 2

\* A prov record as bundle_to_bytes reads it: the record type, the local part
\* of the identifier (None when the record has no identifier) and the
\* attributes as (name, value) pairs in the order the record yields them.
\* Local parts, names and values are numbers that stand for strings in their
\* lexicographic order.
ProvRec(type, id, attrs) == [type |-> type, id |-> id, attrs |-> attrs]

\* sorted(list(bundle.records), key=CryptoUtils.sort_by_id): sorted() is
\* stable, records with equal keys keep the order in which they were given.
RECURSIVE InsertById(_, _)
InsertById(sorted, x) ==
    IF sorted = << >> THEN <<x>>
    ELSE IF x.id < sorted[Len(sorted)].id
    THEN Append(InsertById(SubSeq(sorted, 1, Len(sorted) - 1), x),
                sorted[Len(sorted)])
    ELSE Append(sorted, x)

RECURSIVE SortById(_)
SortById(rs) ==
    IF rs = << >> THEN << >>
    ELSE InsertById(SortById(SubSeq(rs, 1, Len(rs) - 1)), rs[Len(rs)])

\* CryptoUtils.sort_attr: the key (name local part, value) compared as tuples.
AttrLess(a, b) == a[1] < b[1] \/ (a[1] = b[1] /\ a[2] < b[2])

\* sorted(record.attributes, key=CryptoUtils.sort_attr)
RECURSIVE InsertAttr(_, _)
InsertAttr(sorted, x) ==
    IF sorted = << >> THEN <<x>>
    ELSE IF AttrLess(x, sorted[Len(sorted)])
    THEN Append(InsertAttr(SubSeq(sorted, 1, Len(sorted) - 1), x),
                sorted[Len(sorted)])
    ELSE Append(sorted, x)

RECURSIVE SortAttr(_)
SortAttr(as) ==
    IF as = << >> THEN << >>
    ELSE InsertAttr(SortAttr(SubSeq(as, 1, Len(as) - 1)), as[Len(as)])

\* A piece of the output string: a text (local part or value) or a separator.
Text(n) == <<"text", n>>

Separator(c) == <<c, 0>>

\* The loop over the sorted attributes: "+" name "~" value
RECURSIVE AttributeBytes(_)
AttributeBytes(as) ==
    IF as = << >> THEN << >>
    ELSE <<Separator("+"), Text(Head(as)[1]), Separator("~"),
           Text(Head(as)[2])>> \o AttributeBytes(Tail(as))

\* The loop over the sorted records: identifier, attributes, "#". The record
\* type is not written.
RECURSIVE RecordBytes(_)
RecordBytes(rs) ==
    IF rs = << >> THEN << >>
    ELSE <<Text(Head(rs).id)>> \o AttributeBytes(SortAttr(Head(rs).attrs))
            \o <<Separator("#")>> \o RecordBytes(Tail(rs))

\* sort_by_id raises pr.Error("No identifier") for a record without one.
HasIdentifiers(rs) == \A i \in 1 .. Len(rs) : rs[i].id # None

\* CryptoUtils.bundle_to_bytes(bundle, encoding) for a bundle whose records
\* all have an identifier.
bundle_to_bytes(bundle_id, rs) ==
    <<Text(bundle_id), Separator("%")>> \o RecordBytes(SortById(rs))

\* The sequence s without its i-th element.
RemoveAt(s, i) == SubSeq(s, 1, i - 1) \o SubSeq(s, i + 1, Len(s))

\* Every arrangement of the records rs: the records in any order, the
\* attributes of each record in any order.
RECURSIVE Rearrangements(_)
Rearrangements(rs) ==
    IF rs = << >> THEN {<< >>}
    ELSE UNION {{<<[rs[i] EXCEPT !.attrs = a]>> \o t :
                    a \in Orders(SeqToSet(rs[i].attrs)),
                    t \in Rearrangements(RemoveAt(rs, i))} :
                i \in 1 .. Len(rs)}

\* Attribute lists of a record: no attribute, one, or two different ones.
CanonAttrs == {<<1, 1>>, <<1, 2>>, <<2, 1>>}

CanonAttrLists ==
    {<< >>} \cup {<<a>> : a \in CanonAttrs}
            \cup {p \in CanonAttrs \X CanonAttrs : p[1] # p[2]}

\* Records of the bundle: entities 1 and 2 with attributes, and a relation
\* that was given no identifier.
CanonRecords ==
    {ProvRec("entity", id, as) : id \in {1, 2}, as \in CanonAttrLists}
        \cup {ProvRec("relation", None, << >>)}

InitCanon ==
    /\ canon_pc = "new"
    /\ canon_records \in SeqsUpTo(CanonRecords, MaxRecords)
    /\ canon_permuted \in Rearrangements(canon_records)
    /\ canon_output = << >>
    /\ canon_output_permuted = << >>
    /\ SignIdle
    /\ InputIdle
    /\ GenIdle
    /\ DocIdle
    /\ SearchIdle
    /\ ParseIdle

\* bundle_to_bytes of the bundle and of its rearrangement.
Canonicalize ==
    /\ canon_pc = "new"
    /\ HasIdentifiers(canon_records)
    /\ canon_output' = bundle_to_bytes(1, canon_records)
    /\ canon_output_permuted' = bundle_to_bytes(1, canon_permuted)
    /\ canon_pc' = "done"
    /\ UNCHANGED <<genVars, docVars, searchVars, parseVars, signVars, inputVars,
                   canon_records, canon_permuted>>

\* bundle_to_bytes raises pr.Error("No identifier").
CanonicalizeError ==
    /\ canon_pc = "new"
    /\ ~HasIdentifiers(canon_records)
    /\ canon_pc' = "error"
    /\ UNCHANGED <<genVars, docVars, searchVars, parseVars, signVars, inputVars,
                   canon_records, canon_permuted, canon_output,
                   canon_output_permuted>>

NextCanon ==
    \/ Canonicalize
    \/ CanonicalizeError

SpecCanon == InitCanon /\ [][NextCanon]_vars

\* --------------------------------------------------- crypto: signatures

\* Latest value of the clock.
MaxClock == 3

\* Utilites.EXPIRE_IN_DAYS; the clock counts days.
EXPIRE_IN_DAYS == 1

\* The values of Utilites.SIGN_FUNC and Utilites.HASH_FUNC.
SignFuncs ==
    {"NIST192", "NIST256", "NIST384", "NIST521",
     "RSA512", "RSA1024", "RSA1536", "RSA2048"}

HashFuncs == {"SHA3-256", "SHA3-384", "SHA3-512"}

\* CryptoUtils.get_sign_info: the type of the signing function.
SignType(f) ==
    IF f \in {"NIST192", "NIST256", "NIST384", "NIST521"} THEN "NIST"
    ELSE "RSA"

\* Bits of an RSA key, from the name of the signing function.
RsaBits(f) ==
    IF f = "RSA512" THEN 512
    ELSE IF f = "RSA1024" THEN 1024
    ELSE IF f = "RSA1536" THEN 1536
    ELSE 2048

\* Bits of the digest, from the name of the hash function.
HashBits(h) ==
    IF h = "SHA3-256" THEN 256 ELSE IF h = "SHA3-384" THEN 384 ELSE 512

\* rsa.sign raises OverflowError when the digest with its 19 bytes of
\* algorithm prefix and 11 bytes of padding does not fit the key.
SignOverflows(f, h) ==
    SignType(f) = "RSA" /\ HashBits(h) \div 8 + 19 + 11 > RsaBits(f) \div 8

\* CryptoUtils.hash_bundle / the digest a signature is made of: different
\* data or another algorithm give another digest.
Hash(algorithm, data) == <<algorithm, data>>

\* SignAuthority.sign_bytes: the signature of data under a private key.
Signature(key, algorithm, data) ==
    [key |-> key, digest |-> Hash(algorithm, data)]

\* verify / verify_digest: the signature was made with the private key of
\* public_key and of this digest.
Verifies(public_key, sign, digest) ==
    sign.key = public_key /\ sign.digest = digest

\* The private key of the SignAuthority, and the key of somebody else.
AuthorityKey == 1

OtherKey == 2

\* SignAuthority.get_public_key: an integer for NIST, the rsa.PublicKey
\* object itself for RSA.
get_public_key(f) ==
    [key |-> AuthorityKey,
     form |-> IF SignType(f) = "RSA" THEN "object" ELSE "int"]

\* SignAuthority.sign_bundle: the attributes of the token entity.
sign_bundle(f, h, rs, time) ==
    [hash_func |-> h,
     hash |-> Hash(h, bundle_to_bytes(1, rs)),
     sign_func |-> f,
     sign |-> Signature(AuthorityKey, h, bundle_to_bytes(1, rs)),
     timestamp |-> time,
     sign_time |-> Signature(AuthorityKey, h, time),
     public_key |-> get_public_key(f),
     expire_in_days |-> EXPIRE_IN_DAYS,
     malformed |-> "nothing"]

\* What a token can hold instead of what sign_bundle wrote: an attribute is
\* missing; the hash or the timestamp is a value of another type; an integer
\* does not fit the byte width its function name gives; the name of the hash
\* or of the signing function is none of those supported; the timestamp is no
\* ISO date; the public key is no key.
Malformations ==
    {"missing_attribute", "mistyped_hash", "mistyped_timestamp",
     "integer_too_wide", "unknown_hash", "unknown_sign",
     "malformed_timestamp", "malformed_public_key"}

\* The first try block of validate_record ends in one of its except clauses:
\* get_attribute raises IndexError for a missing attribute, a str has no
\* to_bytes (AttributeError), get_sign_info, extract_public_key and
\* get_hash_func raise TypeError for an unknown name, VerifyingKey.from_string
\* raises MalformedPointError.
RejectedInToken(token) ==
    \/ token.malformed \in {"missing_attribute", "mistyped_hash",
                             "unknown_sign"}
    \/ /\ SignType(token.sign_func) = "NIST"
       /\ token.malformed \in {"unknown_hash", "malformed_public_key"}

\* The first try block of validate_record raises what no except clause
\* names: int.to_bytes raises OverflowError for an integer wider than the
\* bytes asked for, eval raises SyntaxError or NameError for a string that is
\* no rsa.PublicKey(n, e) expression.
RaisesInToken(token) ==
    \/ token.malformed = "integer_too_wide"
    \/ /\ SignType(token.sign_func) = "RSA"
       /\ token.malformed = "malformed_public_key"

\* Validator.extract_public_key returns a key: eval("rsa." + key) needs a
\* string, VerifyingKey.from_string needs the integer of a point.
ExtractsPublicKey(token) ==
    IF SignType(token.sign_func) = "RSA"
    THEN token.public_key.form = "str"
    ELSE token.public_key.form = "int"

\* The first try block of validate_record reaches its end.
ParsesToken(token) ==
    /\ ~RejectedInToken(token)
    /\ ~RaisesInToken(token)
    /\ ExtractsPublicKey(token)

\* The signature of the timestamp verifies: it was made of the ISO date that
\* sign_bundle wrote.
VerifiesTime(token) ==
    /\ token.malformed # "malformed_timestamp"
    /\ Verifies(token.public_key.key, token.sign_time,
                Hash(token.hash_func, token.timestamp))

\* validate_record raises after its first try block: rsa.compute_hash raises
\* ValueError for a hash name it does not know, and time.encode raises
\* AttributeError, which the second try block does not catch, once the
\* signature of the bundle has verified.
RaisesInCheck(rs, token) ==
    /\ ParsesToken(token)
    /\ \/ token.malformed = "unknown_hash"
       \/ /\ token.malformed = "mistyped_timestamp"
          /\ Hash(token.hash_func, bundle_to_bytes(1, rs)) = token.hash
          /\ Verifies(token.public_key.key, token.sign, token.hash)

\* validate_record up to the verification of the two signatures.
ChecksData(rs, token) ==
    /\ ParsesToken(token)
    /\ Hash(token.hash_func, bundle_to_bytes(1, rs)) = token.hash
    /\ Verifies(token.public_key.key, token.sign, token.hash)
    /\ VerifiesTime(token)

\* validate_record: the test of the expiry.
Expired_AfterTheInstant(timestamp, days, now) == timestamp + days < now

Expired(timestamp, days, now) == timestamp + days <= now

\* Validator.validate_record(bundle, token)
validate_record(rs, token, now) ==
    /\ ChecksData(rs, token)
    /\ ~Expired(token.timestamp, token.expire_in_days, now)

\* Validator.valid_bundle(meta_bundle, bundle): exactly one token.
valid_bundle(tokens, rs, now) ==
    /\ Len(tokens) = 1
    /\ HasIdentifiers(rs)
    /\ validate_record(rs, tokens[1], now)

\* The loop of valid_bundle over the Token derivations of the bundle raises:
\* get_record finds no record under the generatedEntity of a derivation, and
\* the element [0] of what it returns is taken.
NamesNoEntity(tokens) ==
    \E i \in 1 .. Len(tokens) : tokens[i].malformed = "no_entity"

\* Validator.valid_bundle(meta_bundle, bundle) raises instead of returning.
valid_bundle_raises(tokens, rs) ==
    \/ NamesNoEntity(tokens)
    \/ /\ Len(tokens) = 1
       /\ HasIdentifiers(rs)
       /\ RaisesInToken(tokens[1]) \/ RaisesInCheck(rs, tokens[1])

\* The bundles that are signed.
SignRecords ==
    {ProvRec("entity", 1, << >>), ProvRec("entity", 2, <<<<1, 1>>>>)}

InitSign ==
    /\ sign_pc = "new"
    /\ sign_func \in SignFuncs
    /\ hash_func \in HashFuncs
    /\ sign_records \in SeqsUpTo(SignRecords, MaxRecords)
    /\ sign_meta = << >>
    /\ sign_now \in {0, 1}
    /\ sign_changed = "nothing"
    /\ sign_valid = FALSE
    /\ CanonIdle
    /\ InputIdle
    /\ GenIdle
    /\ DocIdle
    /\ SearchIdle
    /\ ParseIdle

\* sign_bundle, and the Token derivation bundle_with_entities adds.
SignBundle ==
    /\ sign_pc = "new"
    /\ ~SignOverflows(sign_func, hash_func)
    /\ sign_meta' = <<sign_bundle(sign_func, hash_func, sign_records,
                                  sign_now)>>
    /\ sign_pc' = "signed"
    /\ UNCHANGED <<genVars, docVars, searchVars, parseVars, canonVars, inputVars,
                   sign_func, hash_func, sign_records, sign_now,
                   sign_changed, sign_valid>>

\* sign_bundle raises pr.Error("Hash is too big for sign function! ...").
SignBundleError ==
    /\ sign_pc = "new"
    /\ SignOverflows(sign_func, hash_func)
    /\ sign_pc' = "failed"
    /\ UNCHANGED <<genVars, docVars, searchVars, parseVars, canonVars, inputVars,
                   sign_func, hash_func, sign_records, sign_meta, sign_now,
                   sign_changed, sign_valid>>

\* The document is serialized and deserialized: the rsa.PublicKey object
\* comes back as the string "PublicKey(n, e)".
Reload ==
    /\ sign_pc = "signed"
    /\ sign_meta # << >>
    /\ sign_meta[1].public_key.form = "object"
    /\ sign_meta' = [sign_meta EXCEPT ![1].public_key.form = "str"]
    /\ UNCHANGED <<genVars, docVars, searchVars, parseVars, canonVars, inputVars,
                   sign_pc, sign_func, hash_func, sign_records, sign_now,
                   sign_changed, sign_valid>>

\* The content of the signed bundle is changed: a record is added, removed,
\* gets another attribute value, or becomes a record of another type.
ChangeContent ==
    /\ sign_pc = "signed"
    /\ sign_changed = "nothing"
    /\ \/ sign_records' = Append(sign_records, ProvRec("entity", -1, << >>))
       \/ \E i \in 1 .. Len(sign_records) :
             sign_records' = RemoveAt(sign_records, i)
       \/ \E i \in 1 .. Len(sign_records) :
             /\ sign_records[i].attrs # << >>
             /\ sign_records' =
                  [sign_records EXCEPT ![i].attrs[1][2] = @ + 1]
       \/ \E i \in 1 .. Len(sign_records) :
             sign_records' = [sign_records EXCEPT ![i].type = "activity"]
    /\ sign_changed' = "content"
    /\ UNCHANGED <<genVars, docVars, searchVars, parseVars, canonVars, inputVars,
                   sign_pc, sign_func, hash_func, sign_meta, sign_now,
                   sign_valid>>

\* The timestamp attribute of the token is changed.
ChangeTimestamp ==
    /\ sign_pc = "signed"
    /\ sign_changed = "nothing"
    /\ \E time \in 0 .. MaxClock :
          /\ time # sign_meta[1].timestamp
          /\ sign_meta' = [sign_meta EXCEPT ![1].timestamp = time]
    /\ sign_changed' = "timestamp"
    /\ UNCHANGED <<genVars, docVars, searchVars, parseVars, canonVars, inputVars,
                   sign_pc, sign_func, hash_func, sign_records, sign_now,
                   sign_valid>>

\* The public_key attribute of the token is changed.
ChangePublicKey ==
    /\ sign_pc = "signed"
    /\ sign_changed = "nothing"
    /\ sign_meta' = [sign_meta EXCEPT ![1].public_key.key = OtherKey]
    /\ sign_changed' = "public_key"
    /\ UNCHANGED <<genVars, docVars, searchVars, parseVars, canonVars, inputVars,
                   sign_pc, sign_func, hash_func, sign_records, sign_now,
                   sign_valid>>

\* An attribute of the token is removed or gets a value sign_bundle does not
\* write.
MalformToken ==
    /\ sign_pc = "signed"
    /\ sign_changed = "nothing"
    /\ \E m \in Malformations :
          sign_meta' = [sign_meta EXCEPT ![1].malformed = m]
    /\ sign_changed' = "token"
    /\ UNCHANGED <<genVars, docVars, searchVars, parseVars, canonVars, inputVars,
                   sign_pc, sign_func, hash_func, sign_records, sign_now,
                   sign_valid>>

\* The token of the bundle is removed from meta, or meta gets a second Token
\* derivation of the bundle, of a second token or of an entity that is not in
\* meta.
ChangeTokenCount ==
    /\ sign_pc = "signed"
    /\ sign_changed = "nothing"
    /\ sign_meta' \in
          {<< >>, sign_meta \o sign_meta,
           Append(sign_meta, [sign_meta[1] EXCEPT !.malformed = "no_entity"])}
    /\ sign_changed' = "tokens"
    /\ UNCHANGED <<genVars, docVars, searchVars, parseVars, canonVars, inputVars,
                   sign_pc, sign_func, hash_func, sign_records, sign_now,
                   sign_valid>>

\* A day passes.
Tick ==
    /\ sign_pc = "signed"
    /\ sign_now < MaxClock
    /\ sign_now' = sign_now + 1
    /\ UNCHANGED <<genVars, docVars, searchVars, parseVars, canonVars, inputVars,
                   sign_pc, sign_func, hash_func, sign_records, sign_meta,
                   sign_changed, sign_valid>>

\* Validator.valid_bundle(meta_bundle, bundle)
ValidateBundle ==
    /\ sign_pc = "signed"
    /\ ~valid_bundle_raises(sign_meta, sign_records)
    /\ sign_valid' = valid_bundle(sign_meta, sign_records, sign_now)
    /\ sign_pc' = "validated"
    /\ UNCHANGED <<genVars, docVars, searchVars, parseVars, canonVars, inputVars,
                   sign_func, hash_func, sign_records, sign_meta, sign_now,
                   sign_changed>>

\* Validator.valid_bundle(meta_bundle, bundle) ends in an exception.
ValidateBundleError ==
    /\ sign_pc = "signed"
    /\ valid_bundle_raises(sign_meta, sign_records)
    /\ sign_pc' = "raised"
    /\ UNCHANGED <<genVars, docVars, searchVars, parseVars, canonVars, inputVars,
                   sign_func, hash_func, sign_records, sign_meta, sign_now,
                   sign_changed, sign_valid>>

NextSign ==
    \/ SignBundle
    \/ SignBundleError
    \/ Reload
    \/ ChangeContent
    \/ ChangeTimestamp
    \/ ChangePublicKey
    \/ MalformToken
    \/ ChangeTokenCount
    \/ Tick
    \/ ValidateBundle
    \/ ValidateBundleError

SpecSign == InitSign /\ [][NextSign]_vars

\* ------------------------------------------- crypto: the sign function name

\* The characters str.isnumeric accepts among those of the names.
Numerals == <<"0", "1", "2", "3", "4", "5", "6", "7", "8", "9">>

IsNumeric(c) == \E i \in 1 .. Len(Numerals) : Numerals[i] = c

\* int() of one numeral.
DigitValue(c) == (CHOOSE i \in 1 .. Len(Numerals) : Numerals[i] = c) - 1

\* int(sign_bits_str)
RECURSIVE ToInt(_)
ToInt(digits) ==
    IF digits = << >> THEN 0
    ELSE 10 * ToInt(SubSeq(digits, 1, Len(digits) - 1))
           + DigitValue(digits[Len(digits)])

\* The first loop of get_sign_info: the characters before the first numeral.
RECURSIVE TypeOf(_)
TypeOf(name) ==
    IF name = << >> \/ IsNumeric(Head(name)) THEN << >>
    ELSE <<Head(name)>> \o TypeOf(Tail(name))

\* The second loop of get_sign_info: the numerals from the index on.
RECURSIVE BitsOf(_)
BitsOf(rest) ==
    IF rest = << >> \/ ~IsNumeric(Head(rest)) THEN << >>
    ELSE <<Head(rest)>> \o BitsOf(Tail(rest))

\* The match statement of get_sign_info with 521 mapped to twice 521 bits.
NistBits_TwiceTheBits(sign_bits) ==
    IF sign_bits = 384 THEN 768
    ELSE IF sign_bits = 521 THEN 1042
    ELSE IF sign_bits = 256 THEN 512
    ELSE IF sign_bits = 192 THEN 384
    ELSE 0

\* The match statement of get_sign_info: the bits of a NIST signature, 0 for
\* the sizes of the default case.
NistBits(sign_bits) ==
    IF sign_bits = 384 THEN 768
    ELSE IF sign_bits = 521 THEN 1056
    ELSE IF sign_bits = 256 THEN 512
    ELSE IF sign_bits = 192 THEN 384
    ELSE 0

\* CryptoUtils.get_sign_info(name, return_bytes): raised is TRUE when
\* TypeError is raised, else the tuple (sign_type, bits or bytes, curve), the
\* curve being the bits of the NIST curve and 0 for None.
get_sign_info(name, return_bytes) ==
    LET sign_type == TypeOf(name)
        index == Len(sign_type)
        sign_bits == ToInt(BitsOf(SubSeq(name, index + 1, Len(name))))
        nist == sign_type = <<"N", "I", "S", "T">>
        bits == IF nist THEN NistBits(sign_bits) ELSE sign_bits
        failed == [raised |-> TRUE, sign_type |-> << >>, size |-> 0,
                   curve |-> 0]
    IN IF index >= Len(name) \/ index = 0 THEN failed
       ELSE IF nist /\ NistBits(sign_bits) = 0 THEN failed
       ELSE [raised |-> FALSE, sign_type |-> sign_type,
             size |-> IF return_bytes THEN bits \div 8 ELSE bits,
             curve |-> IF nist THEN sign_bits ELSE 0]

\* The names parsed: a type, a size and what follows the size.
NameTypes == {<< >>, <<"N", "I", "S", "T">>, <<"R", "S", "A">>}

NameSizes ==
    {<< >>, <<"1", "9", "2">>, <<"2", "5", "6">>, <<"3", "8", "4">>,
     <<"5", "2", "1">>, <<"5", "1", "2">>, <<"1", "0", "2", "4">>,
     <<"1", "5", "3", "6">>, <<"2", "0", "4", "8">>, <<"1", "0", "0">>}

NameEnds == {<< >>, <<"p">>}

InitParse ==
    /\ parse_pc = "new"
    /\ \E type \in NameTypes, size \in NameSizes, end \in NameEnds :
          parse_name = type \o size \o end
    /\ parse_bytes \in BOOLEAN
    /\ parse_result = << >>
    /\ CanonIdle
    /\ SignIdle
    /\ InputIdle
    /\ GenIdle
    /\ DocIdle
    /\ SearchIdle

\* get_sign_info returns.
ParseName ==
    /\ parse_pc = "new"
    /\ ~get_sign_info(parse_name, parse_bytes).raised
    /\ parse_result' = get_sign_info(parse_name, parse_bytes)
    /\ parse_pc' = "returned"
    /\ UNCHANGED <<genVars, docVars, searchVars, canonVars, signVars,
                   inputVars, parse_name, parse_bytes>>

\* get_sign_info raises TypeError.
ParseNameError ==
    /\ parse_pc = "new"
    /\ get_sign_info(parse_name, parse_bytes).raised
    /\ parse_pc' = "raised"
    /\ UNCHANGED <<genVars, docVars, searchVars, canonVars, signVars,
                   inputVars, parse_name, parse_bytes, parse_result>>

NextParse ==
    \/ ParseName
    \/ ParseNameError

SpecParse == InitParse /\ [][NextParse]_vars

\* ------------------------------------------- generator: bundles as signed

\* The place of an attribute name among the names read by sort_attr:
\* generatedEntity < has_provenance < type < usedEntity.
AttrName(name) ==
    IF name = "generatedEntity" THEN 1 ELSE IF name = "has_provenance" THEN 2
    ELSE IF name = "type" THEN 3 ELSE 4

\* The local part of the identifier of a record of a content bundle: "<id>"
\* of an entity, "der<g>-<u>" of a derivation, "up#bundle<old>-<new>" of a
\* revision; the numbers keep the lexicographic order of these strings.
LocalPart(record) ==
    IF record.kind = "entity" THEN record.id
    ELSE IF record.kind = "derivation"
    THEN 100 + 10 * record.gen + record.used
    ELSE 200 + 10 * record.used + record.gen

\* record.attributes of a record of a content bundle.
AttributesOf(record) ==
    IF record.kind = "entity"
    THEN LET refs == CHOOSE o \in Orders(record.hp) : TRUE
         IN [i \in 1 .. Len(refs) |->
                <<AttrName("has_provenance"),
                  10 * PathRank(refs[i][1]) + refs[i][2]>>]
    ELSE <<<<AttrName("generatedEntity"), record.gen>>,
           <<AttrName("usedEntity"), record.used>>>>
           \o (IF record.kind = "revision"
               THEN <<<<AttrName("type"), 1>>>> ELSE << >>)

\* The records of a content bundle as bundle_to_bytes reads them.
AsProvRecords(rs) ==
    [i \in 1 .. Len(rs) |->
        ProvRec(rs[i].kind, LocalPart(rs[i]), AttributesOf(rs[i]))]

\* ------------------------------------------- generator: input validation

\* A Python value of the raw arguments: an int, a str of v characters, None,
\* a tuple or a list.
PyInt(n) == [t |-> "int", v |-> n, items |-> << >>]

PyStr(n) == [t |-> "str", v |-> n, items |-> << >>]

PyNone == [t |-> "None", v |-> 0, items |-> << >>]

PyTuple(items) == [t |-> "tuple", v |-> 0, items |-> items]

PyList(items) == [t |-> "list", v |-> 0, items |-> items]

\* isinstance(x, Iterable)
IsIterable(x) == x.t \in {"tuple", "list", "str"}

\* What a for loop over x yields; a str yields its characters.
Elements(x) ==
    IF x.t = "str" THEN [i \in 1 .. x.v |-> PyStr(1)] ELSE x.items

\* valid_collection: "isinstance(elem, elem_type)"
IsElemType_Anything(elem, elem_type) == TRUE

IsElemType(elem, elem_type) == elem.t = elem_type

\* DocumentData.valid_collection: ok is FALSE when TypeError is raised.
valid_collection(collection, elem_type) ==
    IF ~IsIterable(collection) THEN [ok |-> FALSE, out |-> << >>]
    ELSE [ok |-> \A i \in 1 .. Len(Elements(collection)) :
                    IsElemType(Elements(collection)[i], elem_type),
          out |-> [i \in 1 .. Len(Elements(collection)) |->
                      Elements(collection)[i].v]]

\* DocumentData.valid_tuple; first_elem_type "object" admits every value.
valid_tuple(tup, count, compare, first_elem_type) ==
    /\ tup.t = "tuple"
    /\ \/ compare = "==" /\ Len(tup.items) = count
       \/ compare = ">" /\ Len(tup.items) > count
       \/ compare = "<" /\ Len(tup.items) < count
       \/ compare = "<=" /\ Len(tup.items) <= count
       \/ compare = ">=" /\ Len(tup.items) >= count
    /\ \/ Len(tup.items) = 0
       \/ first_elem_type = "object"
       \/ tup.items[1].t = first_elem_type

\* One iteration of the loop of validate_bundle_entities: the unified entity
\* (entity_ID, number of has_provenance references, utilized entities).
ValidateEntity(bundle_entity) ==
    IF bundle_entity.t = "int"
    THEN [ok |-> TRUE, out |-> <<bundle_entity.v, 0, << >> >>]
    ELSE IF ~valid_tuple(bundle_entity, 2, ">=", "int")
    THEN [ok |-> FALSE, out |-> << >>]
    ELSE
      LET second == bundle_entity.items[2]
          hp_refs == IF second.t = "str" THEN [ok |-> TRUE, out |-> <<1>>]
                     ELSE valid_collection(second, "str")
          n == Len(bundle_entity.items)
          derivations ==
              IF n = 2 THEN [ok |-> TRUE, out |-> << >>]
              ELSE IF n = 3
              THEN (IF bundle_entity.items[3].t = "int"
                    THEN [ok |-> TRUE, out |-> <<bundle_entity.items[3].v>>]
                    ELSE valid_collection(bundle_entity.items[3], "int"))
              ELSE [ok |-> FALSE, out |-> << >>]
      IN IF hp_refs.ok /\ derivations.ok
         THEN [ok |-> TRUE,
               out |-> <<bundle_entity.items[1].v, Len(hp_refs.out),
                         derivations.out>>]
         ELSE [ok |-> FALSE, out |-> << >>]

\* DocumentData.validate_bundle_entities
validate_bundle_entities(bundle_entities) ==
    LET entities == IF bundle_entities.t = "list" THEN bundle_entities.items
                    ELSE <<bundle_entities>>
    IN [ok |-> \A i \in 1 .. Len(entities) : ValidateEntity(entities[i]).ok,
        out |-> [i \in 1 .. Len(entities) |-> ValidateEntity(entities[i]).out]]

\* DocumentData.validate_bundles
validate_bundles(raw) ==
    IF ~IsIterable(raw) THEN [ok |-> FALSE, out |-> << >>]
    ELSE [ok |-> \A i \in 1 .. Len(Elements(raw)) :
                    validate_bundle_entities(Elements(raw)[i]).ok,
          out |-> [i \in 1 .. Len(Elements(raw)) |->
                      validate_bundle_entities(Elements(raw)[i]).out]]

\* One iteration of the loop of validate_updates: [ok, out, exclude], where
\* exclude holds what the iteration adds to exclude_tokens, also when it then
\* raises TypeError.
ValidateUpdate(update) ==
    IF update.t = "int"
    THEN [ok |-> TRUE, out |-> <<<<update.v>>, << >>, << >> >>,
          exclude |-> << >>]
    ELSE IF ~valid_tuple(update, 1, ">=", "object") \/ Len(update.items) > 3
    THEN [ok |-> FALSE, out |-> << >>, exclude |-> << >>]
    ELSE
      LET first == update.items[1]
          n == Len(update.items)
      IN IF first.t = "int" /\ n = 2 /\ update.items[2].t = "int"
         THEN [ok |-> TRUE,
               out |-> <<<<first.v, update.items[2].v>>, << >>, << >> >>,
               exclude |-> <<update.items[2].v>>]
         ELSE IF first.t # "int"
                 /\ ~(valid_tuple(first, 2, "==", "int")
                        /\ first.items[2].t = "int")
         THEN [ok |-> FALSE, out |-> << >>, exclude |-> << >>]
         ELSE
           LET update_from_to ==
                   IF first.t = "int" THEN <<first.v>>
                   ELSE <<first.items[1].v, first.items[2].v>>
               exclude == IF first.t = "int" THEN << >>
                          ELSE <<first.items[2].v>>
               deletion_list ==
                   IF n = 1 THEN [ok |-> TRUE, out |-> << >>]
                   ELSE valid_collection(update.items[2], "int")
               entities ==
                   IF n < 3 \/ ~deletion_list.ok
                   THEN [ok |-> TRUE, out |-> << >>]
                   ELSE validate_bundle_entities(update.items[3])
           IN [ok |-> deletion_list.ok /\ entities.ok,
               out |-> <<update_from_to, deletion_list.out, entities.out>>,
               exclude |-> exclude]

\* DocumentData.validate_updates: the loop stops at the first TypeError.
RECURSIVE ValidateUpdates(_, _, _)
ValidateUpdates(raw, out, exclude) ==
    IF raw = << >> THEN [ok |-> TRUE, out |-> out, exclude |-> exclude]
    ELSE LET r == ValidateUpdate(Head(raw))
         IN IF r.ok
            THEN ValidateUpdates(Tail(raw), Append(out, r.out),
                                 exclude \o r.exclude)
            ELSE [ok |-> FALSE, out |-> out, exclude |-> exclude \o r.exclude]

validate_updates(raw) ==
    IF raw.t = "None" \/ ~IsIterable(raw)
    THEN [ok |-> FALSE, out |-> << >>, exclude |-> << >>]
    ELSE ValidateUpdates(Elements(raw), << >>, << >>)

\* Values given for one bundle of the entities_in_bundles argument.
RawBundleItems ==
    { PyInt(1),
      PyList(<<PyInt(1), PyTuple(<<PyInt(2), PyStr(3)>>)>>),
      PyTuple(<<PyInt(1), PyList(<<PyStr(3)>>), PyList(<<PyInt(2)>>)>>),
      PyTuple(<<PyInt(1), PyStr(3), PyInt(2)>>),
      PyTuple(<<PyInt(1)>>),
      PyTuple(<<PyInt(1), PyStr(3), PyInt(2), PyInt(3)>>),
      PyTuple(<<PyStr(3), PyStr(3)>>),
      PyTuple(<<PyInt(1), PyInt(2)>>),
      PyTuple(<<PyInt(1), PyList(<<PyInt(2)>>)>>),
      PyTuple(<<PyInt(1), PyStr(3), PyList(<<PyStr(3)>>)>>),
      PyStr(3),
      PyNone }

\* Values of the entities_in_bundles argument.
RawBundles ==
    {PyNone, PyInt(1), PyList(<< >>)}
        \cup {PyList(<<b>>) : b \in RawBundleItems}
        \cup {PyList(<<PyInt(1), b>>) : b \in RawBundleItems}

\* Values given for one update of the updates argument.
RawUpdateItems ==
    { PyInt(1),
      PyTuple(<<PyInt(1)>>),
      PyTuple(<<PyInt(1), PyInt(2)>>),
      PyTuple(<<PyTuple(<<PyInt(1), PyInt(2)>>)>>),
      PyTuple(<<PyInt(1), PyList(<<PyInt(1)>>)>>),
      PyTuple(<<PyInt(1), PyList(<< >>), PyInt(2)>>),
      PyTuple(<<PyInt(1), PyList(<< >>),
                PyList(<<PyTuple(<<PyInt(2), PyStr(3)>>)>>)>>),
      PyTuple(<< >>),
      PyTuple(<<PyInt(1), PyList(<< >>), PyInt(2), PyInt(3)>>),
      PyTuple(<<PyStr(3)>>),
      PyTuple(<<PyTuple(<<PyInt(1), PyStr(3)>>)>>),
      PyTuple(<<PyTuple(<<PyInt(1), PyInt(2), PyInt(3)>>)>>),
      PyTuple(<<PyTuple(<<PyInt(1), PyInt(2)>>), PyStr(3)>>),
      PyTuple(<<PyInt(1), PyList(<<PyStr(3)>>)>>),
      PyTuple(<<PyInt(1), PyInt(2), PyInt(3)>>),
      PyTuple(<<PyInt(1), PyList(<< >>), PyTuple(<<PyInt(1)>>)>>),
      PyList(<<PyInt(1)>>),
      PyStr(3),
      PyNone }

\* Values of the updates argument.
RawUpdates ==
    {PyNone, PyInt(1), PyList(<< >>)}
        \cup {PyList(<<u>>) : u \in RawUpdateItems}
        \cup {PyList(<<PyTuple(<<PyInt(1), PyInt(2)>>), u>>) :
                 u \in RawUpdateItems}

InitInput ==
    /\ input_pc = "bundles"
    /\ input_bundles \in RawBundles
    /\ input_updates \in RawUpdates
    /\ input_exclude = << >>
    /\ input_unified = << >>
    /\ input_effects = {}
    /\ CanonIdle
    /\ SignIdle
    /\ GenIdle
    /\ DocIdle
    /\ SearchIdle
    /\ ParseIdle

\* self.bundles_entities = self.validate_bundles(entities_in_bundles)
ValidateBundles ==
    /\ input_pc = "bundles"
    /\ validate_bundles(input_bundles).ok
    /\ input_unified' = <<validate_bundles(input_bundles).out>>
    /\ input_pc' = "updates"
    /\ UNCHANGED <<genVars, docVars, searchVars, parseVars, canonVars, signVars,
                   input_bundles, input_updates, input_exclude,
                   input_effects>>

\* validate_bundles raises TypeError.
ValidateBundlesTypeError ==
    /\ input_pc = "bundles"
    /\ ~validate_bundles(input_bundles).ok
    /\ input_pc' = "TypeError"
    /\ UNCHANGED <<genVars, docVars, searchVars, parseVars, canonVars, signVars,
                   input_bundles, input_updates, input_exclude,
                   input_unified, input_effects>>

\* self.updates = self.validate_updates(updates)
ValidateUpdatesOk ==
    /\ input_pc = "updates"
    /\ validate_updates(input_updates).ok
    /\ input_unified' = Append(input_unified,
                               validate_updates(input_updates).out)
    /\ input_exclude' = validate_updates(input_updates).exclude
    /\ input_pc' = "document"
    /\ UNCHANGED <<genVars, docVars, searchVars, parseVars, canonVars, signVars,
                   input_bundles, input_updates, input_effects>>

\* validate_updates raises TypeError; exclude_tokens keeps what was added.
ValidateUpdatesTypeError ==
    /\ input_pc = "updates"
    /\ ~validate_updates(input_updates).ok
    /\ input_exclude' = validate_updates(input_updates).exclude
    /\ input_pc' = "TypeError"
    /\ UNCHANGED <<genVars, docVars, searchVars, parseVars, canonVars, signVars,
                   input_bundles, input_updates, input_unified,
                   input_effects>>

\* The rest of DocumentData.__init__: the provenance document and the keys
\* of the SignAuthority are created.
CreateDocumentData ==
    /\ input_pc = "document"
    /\ input_effects' = input_effects \cup {"document", "keys"}
    /\ input_pc' = "constructed"
    /\ UNCHANGED <<genVars, docVars, searchVars, parseVars, canonVars, signVars,
                   input_bundles, input_updates, input_exclude,
                   input_unified>>

\* DocumentGenerator.create_document: bundles and tokens are emitted and the
\* serialization is written to the output path or to stdout.
CreateDocument ==
    /\ input_pc = "constructed"
    /\ input_effects' = input_effects \cup {"bundles", "tokens", "written"}
    /\ input_pc' = "created"
    /\ UNCHANGED <<genVars, docVars, searchVars, parseVars, canonVars, signVars,
                   input_bundles, input_updates, input_exclude,
                   input_unified>>

NextInput ==
    \/ ValidateBundles
    \/ ValidateBundlesTypeError
    \/ ValidateUpdatesOk
    \/ ValidateUpdatesTypeError
    \/ CreateDocumentData
    \/ CreateDocument

SpecInput == InitInput /\ [][NextInput]_vars

\* ------------------------------------------------- properties: the generator

\* Number of Token-typed wasDerivedFrom records of the meta-bundle for b.
TokenCount(b) ==
    Cardinality({i \in 1 .. Len(meta) :
                    meta[i].kind = "tokenDer" /\ meta[i].used = b})

\* Sources of the merge updates of the input.
MergeSourceIds ==
    {updates[i][1][1] : i \in {j \in 1 .. Len(updates) :
                                   Len(updates[j][1]) = 2}}

\* The records of the content bundles, as a loaded Document holds them.
GenRecords == [b \in DOMAIN bundles |-> bundles[b].records]

\* wasRevisionOf records of the meta-bundle.
MetaRevisions == SelectSeq(meta, IsRevisionTyped)

\* Revision-typed records inside content bundle b.
RevisionsIn(b) == SelectSeq(bundles[b].records, IsRevisionTyped)

\* Records of bundle b apart from the invalidation sentinel (entity -1).
IsNotSentinel(record) == ~(record.kind = "entity" /\ record.id = -1)

ContentLen(b) == Len(SelectSeq(bundles[b].records, IsNotSentinel))

\* Numbers of the bundle entities of the meta-bundle, in creation order.
IsBundleEntity(record) == record.kind = "bundle"

CreatedIds ==
    LET created == SelectSeq(meta, IsBundleEntity)
    IN [k \in 1 .. Len(created) |-> created[k].id]

\* Number of calls of Creator.bundle made so far, from the input consumed.
ExpectedCreated ==
    IF gen_pc = "validate" THEN 0
    ELSE IF gen_pc = "bundles" THEN next_item - 1
    ELSE Len(bundles_entities)
           + Cardinality({i \in 1 .. next_item - 1 : Len(updates[i][1]) = 1})

C2_TokenOnceAfterLastRecord ==
    gen_pc = "done" =>
        \A b \in DOMAIN bundles :
            /\ TokenCount(b) = 1
            /\ b \in DOMAIN signed_len
            /\ signed_len[b] = ContentLen(b)

\* C9: every wasRevisionOf of the meta-bundle has an equal record inside the
\* newer bundle; a bundle holds Revision records only for the updates that
\* target it, once per update; every such edge passes check_update_validity.
C9_RevisionsMirrored ==
    /\ \A i \in 1 .. Len(MetaRevisions) :
          /\ MetaRevisions[i].gen \in DOMAIN bundles
          /\ Count(bundles[MetaRevisions[i].gen].records, MetaRevisions[i]) > 0
          /\ CheckUpdateValidity(GenRecords, MetaRevisions[i].used,
                                 MetaRevisions[i].gen)
    /\ \A b \in DOMAIN bundles :
          \A i \in 1 .. Len(RevisionsIn(b)) :
              /\ RevisionsIn(b)[i].gen = b
              /\ Count(RevisionsIn(b), RevisionsIn(b)[i])
                    = Count(MetaRevisions, RevisionsIn(b)[i])

\* A finished build in which the result of an update was updated again.
C9_Witness ==
    /\ gen_pc = "done"
    /\ \E a, b, c \in DOMAIN bundles :
          /\ a # b /\ b # c
          /\ Count(meta, RevisionRec(b, a)) > 0
          /\ Count(meta, RevisionRec(c, b)) > 0
          /\ \E i \in 1 .. Len(bundles[b].records) :
                bundles[b].records[i].kind = "entity"

\* C10: the k-th content bundle created gets number start_id + k - 1; merge
\* updates create no bundle and use no number; no number is given twice.
C10_SequentialIds ==
    /\ CreatedIds = [k \in 1 .. ExpectedCreated |-> start_id + k - 1]
    /\ DOMAIN bundles = {start_id + k - 1 : k \in 1 .. ExpectedCreated}
    /\ gen_pc # "validate" => bundle_ID = start_id + ExpectedCreated - 1

\* A finished build whose merge update is followed by a plain update.
C10_Witness ==
    /\ gen_pc = "done"
    /\ start_id = 2
    /\ \E i, j \in 1 .. Len(updates) :
          /\ i < j
          /\ Len(updates[i][1]) = 2
          /\ updates[i][1][2] \in DOMAIN bundles
          /\ Len(updates[j][1]) = 1

\* ---------------------------------------------- properties: the document view

\* Confirmed revision edges <<older, newer>> of the document being loaded.
ConfirmedEdges ==
    {<<doc_meta[i].used, doc_meta[i].gen>> :
        i \in {j \in 1 .. Len(doc_meta) :
                  /\ IsRevisionTyped(doc_meta[j])
                  /\ CheckUpdateValidity(doc_bundles, doc_meta[j].used,
                                         doc_meta[j].gen)}}

\* Bundles reached from the set S by at most n confirmed edges.
RECURSIVE ReachedWithin(_, _)
ReachedWithin(S, n) ==
    IF n = 0 THEN S
    ELSE ReachedWithin(S \cup {e[2] : e \in {d \in ConfirmedEdges : d[1] \in S}},
                       n - 1)

\* Some bundle reaches itself by one or more confirmed edges.
HasRevisionCycle ==
    \E e \in ConfirmedEdges :
        e[1] \in ReachedWithin({e[2]}, Cardinality(DocIds))

\* C8 (as stated): the construction of a Document fails for every cycle of
\* confirmed revision edges, self-revision included, and succeeds for every
\* acyclic graph.
C8_FailsExactlyOnCycles ==
    doc_pc # "new" => (doc_pc = "error" <=> HasRevisionCycle)

\* ------------------------------------------------------ properties: the search

\* The three output lists, one after the other.
Outputs == output_valid \o output_low \o output_invalid

\* y is a confirmed newer version of x in the document at path.
NewerVersion(path, x, y) == y \in SeqToSet(NewerIds(DocUpdates(path), x))

\* Bundles reached from S by at most n revision edges that end in allowed.
RECURSIVE RevisionReach(_, _, _, _)
RevisionReach(path, S, allowed, n) ==
    IF n = 0 THEN S
    ELSE RevisionReach(path,
                       S \cup {y \in allowed :
                                 \E x \in S : NewerVersion(path, x, y)},
                       allowed, n - 1)

BundleIds(path) == DOMAIN files[path].bundles

ValidIds(path) == {b \in BundleIds(path) : ValidBundle(path, b)}

\* Bundles reached from id by revision edges through bundles of allowed.
Descendants(path, id, allowed) ==
    RevisionReach(path, {id}, allowed, Cardinality(BundleIds(path)))

\* The bundle holds the entity and no newer version of it does.
NewestWith(path, id, entity) ==
    /\ GetEntity(RecordsOf(path, id), entity)
    /\ \A d \in Descendants(path, id, BundleIds(path)) \ {id} :
          ~GetEntity(RecordsOf(path, d), entity)

\* C3 (as stated): no triple is classified and enqueued again, so no triple
\* is handed to search_traverse twice and the search needs fewer than
\* MaxTraversals traversals; in strict and in non-strict mode.
C3_NoTripleEnqueuedAgain ==
    /\ \A i, j \in 1 .. Len(traversed) :
          i < j => traversed[i][1] # traversed[j][1]
    /\ search_pc \in {"valid", "invalid"} =>
          Len(valid_bundles) + Len(invalid_bundles) + Len(traversed)
            <= MaxTraversals

\* C4 (as stated): no triple occurs twice in the three output lists, in
\* strict and in non-strict mode.
C4_OutputsDistinct ==
    \A i, j \in 1 .. Len(Outputs) : i < j => Outputs[i] # Outputs[j]

C6_OutputsClassified ==
    /\ \A i \in 1 .. Len(Outputs) :
          GetEntity(RecordsOf(Outputs[i][1], Outputs[i][2]), Outputs[i][3])
    /\ \A i \in 1 .. Len(output_valid) :
          ValidBundle(output_valid[i][1], output_valid[i][2])
    /\ \A i \in 1 .. Len(output_low) :
          ValidBundle(output_low[i][1], output_low[i][2])
    /\ \A i \in 1 .. Len(output_invalid) :
          ~strict /\ ~ValidBundle(output_invalid[i][1], output_invalid[i][2])

\* A finished search with a triple in each of the three lists.
C6_Witness ==
    /\ search_pc = "returned"
    /\ output_valid # << >>
    /\ output_low # << >>
    /\ output_invalid # << >>

\* C7: in strict mode out_invalid stays empty and search_traverse never runs
\* on an invalid bundle; in non-strict mode, when the search returns, every
\* reached invalid bundle that holds E and has no newer version holding E is
\* in out_invalid and was traversed with still_valid false.
C7_StrictPrunesInvalid ==
    /\ strict =>
          /\ output_invalid = << >>
          /\ \A i \in 1 .. Len(traversed) :
                ValidBundle(traversed[i][1][1], traversed[i][1][2])
    /\ (~strict /\ search_pc = "returned") =>
          \A en \in entries :
              \A b \in Descendants(en[1], en[2], BundleIds(en[1])) :
                  (~ValidBundle(en[1], b) /\ NewestWith(en[1], b, en[3]))
                    => /\ Count(output_invalid, Key(en[1], b, en[3])) > 0
                       /\ Count(traversed, <<Key(en[1], b, en[3]), FALSE>>) > 0

\* A finished strict search that reached an invalid newest bundle holding the
\* entity and emitted other bundles.
C7_Witness ==
    /\ search_pc = "returned"
    /\ strict
    /\ output_valid # << >>
    /\ \E en \in entries :
          \E b \in Descendants(en[1], en[2], BundleIds(en[1])) :
              ~ValidBundle(en[1], b) /\ NewestWith(en[1], b, en[3])

\* ---------------------------------------------- properties: canonical bytes

\* C11 (as stated): the canonical bytes of a bundle are the same for every
\* order of its records and every order of each record's attributes, also
\* when two records share the identifier local part and differ in attributes.
C11_SameBytesForEveryOrder ==
    canon_pc = "done" => canon_output = canon_output_permuted

\* --------------------------------------------------- properties: signatures

\* C12 (as stated): for every pair of signing and hash function the bundle is
\* signed, valid_bundle returns true right after the token and its Token
\* derivation are recorded, and returns false after any change to the content
\* of the bundle, to the timestamp or to the public key of the token.
C12_SignatureRoundTrip ==
    /\ sign_pc # "failed"
    /\ sign_pc = "validated" =>
          /\ sign_changed = "nothing"
                /\ sign_now = sign_meta[1].timestamp => sign_valid
          /\ sign_changed # "nothing" => ~sign_valid

\* C13 (as stated): a token that is correct apart from its age is accepted
\* exactly while now <= timestamp + expire_in_days, the instant
\* now = timestamp + expire_in_days included.
C13_AsStated ==
    (/\ sign_pc = "validated"
     /\ Len(sign_meta) = 1
     /\ ChecksData(sign_records, sign_meta[1])) =>
        (sign_valid <=>
            sign_now <= sign_meta[1].timestamp
                          + sign_meta[1].expire_in_days)

\* C13 (amended): a token that is correct apart from its age is accepted
\* exactly while now < timestamp + expire_in_days; at the instant
\* now = timestamp + expire_in_days and later it is rejected.
C13_ExpiresAtTheInstant ==
    (/\ sign_pc = "validated"
     /\ Len(sign_meta) = 1
     /\ ChecksData(sign_records, sign_meta[1])) =>
        (sign_valid <=>
            sign_now < sign_meta[1].timestamp
                         + sign_meta[1].expire_in_days)

\* An unchanged token validated at the instant it expires.
C13_Witness ==
    /\ sign_pc = "validated"
    /\ sign_changed = "nothing"
    /\ ChecksData(sign_records, sign_meta[1])
    /\ sign_now = sign_meta[1].timestamp + sign_meta[1].expire_in_days
    /\ ~sign_valid

\* C30 (as stated): valid_bundle never raises, whatever the token holds: a
\* missing token, more than one token, a missing or mistyped attribute, an
\* integer too large for its byte width, an unknown hash or signature name,
\* a malformed timestamp or a malformed public key each end in a returned
\* value.
C30_NeverRaises ==
    sign_pc # "raised"

\* C31 (as stated): valid_bundle returns false whenever the number of Token
\* derivations of the bundle in meta differs from one, none or two and more,
\* whether or not a token among them would verify.
C31_FalseUnlessOneToken ==
    (sign_pc \in {"validated", "raised"} /\ Len(sign_meta) # 1) =>
        (sign_pc = "validated" /\ ~sign_valid)

\* ------------------------------------------ properties: invalidation

\* Number of entities -1 of bundle b.
SentinelCount(b) == Len(bundles[b].records) - ContentLen(b)

\* Validator.valid_bundle on a content bundle of the generated document: the
\* meta-bundle holds one token for b, and the bytes of b are the bytes that
\* were signed.
GenValidBundle(b) ==
    /\ TokenCount(b) = 1
    /\ b \in DOMAIN signed_len
    /\ bundle_to_bytes(b, AsProvRecords(bundles[b].records))
         = bundle_to_bytes(b, AsProvRecords(SubSeq(bundles[b].records, 1,
                                                   signed_len[b])))

\* C14 (as stated): after the build every bundle named in invalidate_bundles
\* fails valid_bundle and holds one entity -1 without has_provenance; every
\* other content bundle validates against its token and is as it was signed.
C14_OnlyNamedBundlesInvalid ==
    gen_pc = "done" =>
        \A b \in DOMAIN bundles :
            LET named == b \in SeqToSet(invalidate_bundles)
            IN /\ GenValidBundle(b) <=> ~named
               /\ SentinelCount(b) = (IF named THEN 1 ELSE 0)
               /\ Count(bundles[b].records, EntityRec(-1, {}))
                     = (IF named THEN 1 ELSE 0)

\* ------------------------------------------ properties: input validation

\* The value is no collection of elem_type values; single admits one bare
\* value of that type.
CollectionFault(x, elem_type, single) ==
    /\ ~(single /\ x.t = elem_type)
    /\ \/ ~IsIterable(x)
       \/ \E i \in 1 .. Len(Elements(x)) : Elements(x)[i].t # elem_type

\* An entity is neither an int nor a tuple (int, references[, utilized]).
EntityFault(e) ==
    /\ e.t # "int"
    /\ \/ e.t # "tuple"
       \/ Len(e.items) \notin {2, 3}
       \/ e.items[1].t # "int"
       \/ CollectionFault(e.items[2], "str", TRUE)
       \/ Len(e.items) = 3 /\ CollectionFault(e.items[3], "int", TRUE)

\* A bundle is neither an entity nor a list of entities.
BundleFault(b) ==
    LET entities == IF b.t = "list" THEN b.items ELSE <<b>>
    IN \E i \in 1 .. Len(entities) : EntityFault(entities[i])

\* The first item of an update is neither an int nor a pair of ints.
FromToFault(f) ==
    /\ f.t # "int"
    /\ ~(/\ f.t = "tuple"
         /\ Len(f.items) = 2
         /\ f.items[1].t = "int"
         /\ f.items[2].t = "int")

\* An update is neither an int nor a tuple of one to three items of the
\* documented types; the pair (int, int) is a merge.
UpdateFault(u) ==
    /\ u.t # "int"
    /\ \/ u.t # "tuple"
       \/ Len(u.items) = 0
       \/ Len(u.items) > 3
       \/ FromToFault(u.items[1])
       \/ /\ Len(u.items) >= 2
          /\ ~(Len(u.items) = 2 /\ u.items[1].t = "int"
                 /\ u.items[2].t = "int")
          /\ CollectionFault(u.items[2], "int", FALSE)
       \/ Len(u.items) = 3 /\ BundleFault(u.items[3])

\* The bundles argument has an invalid shape.
BundlesFault(raw) ==
    \/ ~IsIterable(raw)
    \/ \E i \in 1 .. Len(Elements(raw)) : BundleFault(Elements(raw)[i])

\* The updates argument has an invalid shape.
UpdatesFault(raw) ==
    \/ ~IsIterable(raw)
    \/ \E i \in 1 .. Len(Elements(raw)) : UpdateFault(Elements(raw)[i])

\* C15: a bundles or updates argument of invalid shape makes the builder
\* raise TypeError, and when TypeError is raised no document and no key has
\* been created, no bundle or token emitted and nothing written.
C15_TypeErrorBeforeEffects ==
    /\ input_pc = "TypeError" => input_effects = {}
    /\ BundlesFault(input_bundles) =>
          input_pc \in {"bundles", "TypeError"}
    /\ UpdatesFault(input_updates) =>
          input_pc \in {"bundles", "updates", "TypeError"}
    /\ input_effects # {} =>
          ~BundlesFault(input_bundles) /\ ~UpdatesFault(input_updates)

\* TypeError raised for an update with a wrong element type, after a merge
\* of the same argument was accepted.
C15_Witness ==
    /\ input_pc = "TypeError"
    /\ ~BundlesFault(input_bundles)
    /\ UpdatesFault(input_updates)
    /\ input_exclude # << >>
    /\ input_effects = {}

\* ------------------------------------- properties: references and results

\* The triple search_traverse is called with next, and the queue without it.
NextTraversals ==
    IF search_pc = "valid" /\ valid_bundles # << >>
    THEN {<<valid_bundles[Len(valid_bundles)], TRUE,
            [SData EXCEPT !.valid_bundles = SubSeq(@, 1, Len(@) - 1)]>>}
    ELSE IF search_pc = "invalid" /\ invalid_bundles # << >>
    THEN {<<invalid_bundles[Len(invalid_bundles)], FALSE,
            [SData EXCEPT !.invalid_bundles = SubSeq(@, 1, Len(@) - 1)]>>}
    ELSE {}

\* The sequence s begins with the sequence p.
IsPrefix(p, s) == Len(p) <= Len(s) /\ SubSeq(s, 1, Len(p)) = p

\* C16: a has_provenance reference that does not resolve (the file cannot be
\* read, the bundle is missing, the document has a cycle of revisions) is
\* skipped: search_traverse ends as it ends without that reference, so the
\* references after it are followed and the queues are kept, and the triples
\* already in the output lists stay; the search raises no error after its
\* construction.
C16_UnresolvedReferencesSkipped ==
    /\ search_pc = "error" => traversed = << >>
    /\ \A n \in NextTraversals :
          LET records == RecordsOf(n[1][1], n[1][2])
          IN \A related \in Orders(RelatedEntities(records, n[1][3])),
                refs \in NextBundles(records, n[1][3]) :
                LET s == search_traverse(n[3], n[1], n[2], related, refs)
                IN /\ s = search_traverse(n[3], n[1], n[2], related,
                                          SelectSeq(refs, Resolves))
                   /\ IsPrefix(output_valid, s.output_valid)
                   /\ IsPrefix(output_low, s.output_low)
                   /\ IsPrefix(output_invalid, s.output_invalid)

\* A finished search of an entry bundle that refers to the document "c" with
\* a cycle of revisions and to the document "b"; a bundle of "b" is emitted.
C16_Witness ==
    /\ search_pc = "returned"
    /\ "c" \in DOMAIN files
    /\ ~CanLoad("c")
    /\ \E i \in 1 .. Len(traversed) :
          \E r \in NextBundles(RecordsOf(traversed[i][1][1],
                                         traversed[i][1][2]),
                               traversed[i][1][3]) :
              Len(r) = 2 /\ ~Resolves(r[1]) /\ Resolves(r[2])
    /\ \E i \in 1 .. Len(Outputs) : Outputs[i][1] = "b"

\* Confirmed revision edges <<older, newer>> of the file at path.
FileEdges(path) ==
    {<<files[path].meta[i].used, files[path].meta[i].gen>> :
        i \in {j \in 1 .. Len(files[path].meta) :
                  /\ IsRevisionTyped(files[path].meta[j])
                  /\ CheckUpdateValidity(files[path].bundles,
                                         files[path].meta[j].used,
                                         files[path].meta[j].gen)}}

\* Bundles reached from the set S by at most n edges of E.
RECURSIVE ReachedBy(_, _, _)
ReachedBy(E, S, n) ==
    IF n = 0 THEN S
    ELSE ReachedBy(E, S \cup {e[2] : e \in {d \in E : d[1] \in S}}, n - 1)

\* Some bundle of the file reaches itself by one or more confirmed edges.
FileHasCycle(path) ==
    \E e \in FileEdges(path) :
        e[1] \in ReachedBy(FileEdges(path), {e[2]},
                           Cardinality(DOMAIN files[path].bundles))

\* C17 (as stated): when the entry document has a cycle of confirmed revision
\* edges the construction of Search raises pr.Error and yields no result
\* lists; a document with such a cycle that is reached only by has_provenance
\* raises nothing.
C17_CyclicEntryRaises ==
    /\ FileHasCycle(initial_path) =>
          search_pc \in {"new", "error"} /\ result = << >>
    /\ ~FileHasCycle(initial_path) => search_pc # "error"

\* C18 (as stated): search returns the lists in the order valid,
\* low credibility, invalid.
C18_AsStated ==
    search_pc = "returned" =>
        result = <<output_valid, output_low, output_invalid>>

\* C18 (amended): search returns the lists in the order valid, invalid,
\* low credibility.
C18_ValidInvalidLow ==
    search_pc \in {"returned", "printed"} =>
        result = <<output_valid, output_invalid, output_low>>

\* A returned result whose three lists are non-empty and whose invalid and
\* low-credibility lists differ.
C18_Witness ==
    /\ search_pc = "returned"
    /\ output_valid # << >>
    /\ output_low # << >>
    /\ output_invalid # << >>
    /\ result[2] = output_invalid
    /\ result[2] # result[3]

\* The list is ascending by (path, bundle number, entity number).
IsSorted(list) ==
    \A i, j \in 1 .. Len(list) :
        i < j => ~KeyLess(sort_result(list[j]), sort_result(list[i]))

\* C19 (as stated): each list is ascending by (path, bundle number, entity
\* number) when search returns.
C19_AsStated ==
    search_pc = "returned" => \A k \in 1 .. 3 : IsSorted(result[k])

\* C19 (amended): search returns each list in the order in which its triples
\* were emitted; each list is ascending by (path, bundle number, entity
\* number) once ResultPrinter.pretty_print has sorted it in place.
C19_SortedWhenPrinted ==
    /\ search_pc = "returned" =>
          printed = << >> /\ result = SearchResult(SData)
    /\ search_pc = "printed" =>
          /\ \A k \in 1 .. 3 : IsSorted(printed[k]) /\ IsSorted(result[k])
          /\ printed = <<result[1], result[3], result[2]>>

\* Printed lists with triples of two documents in one list and of more than
\* one bundle of a document.
C19_Witness ==
    /\ search_pc = "printed"
    /\ \E k \in 1 .. 3 :
          \E i, j \in 1 .. Len(printed[k]) :
              /\ i < j
              /\ printed[k][i][1] = "a"
              /\ printed[k][j][1] = "b"
    /\ \E k \in 1 .. 3 :
          \E i, j \in 1 .. Len(printed[k]) :
              /\ printed[k][i][1] = printed[k][j][1]
              /\ printed[k][i][2] < printed[k][j][2]

\* ------------------------------------------- properties: the update map

\* C20 (as stated): Document.updates holds new among the newer ids of old and
\* old among the older ids of new exactly for the revisions of new from old
\* that bundle new confirms; the map is symmetric.
C20_UpdatesAreConfirmedEdges ==
    doc_pc = "loaded" =>
        \A old, new \in DocIds :
            /\ <<old, new>> \in ConfirmedEdges
                  <=> new \in SeqToSet(NewerIds(doc_updates, old))
            /\ <<old, new>> \in ConfirmedEdges
                  <=> old \in SeqToSet(OlderIds(doc_updates, new))

\* --------------------------------------- properties: newest versions

\* The triples on the three queues.
Queued == valid_bundles \o invalid_bundles \o postpone_updates

\* Every triple a SearchData value has emitted or enqueued.
Emitted(s) ==
    s.output_valid \o s.output_low \o s.output_invalid \o s.valid_bundles
        \o s.invalid_bundles \o s.postpone_updates

\* Some newer version of the bundle, reached over newer-version edges of
\* Document.updates, holds the entity and, in strict mode, validates.
HasNewerYielding(path, b, e) ==
    \E d \in Descendants(path, b, BundleIds(path)) \ {b} :
        GetEntity(RecordsOf(path, d), e) /\ (strict => ValidBundle(path, d))

\* C21: no triple (d, B, E) is in an output list or on a queue when a newer
\* version of B holds E (and validates, in strict mode); and each call of
\* entity_check the next search_traverse makes on such a B returns true and
\* emits no triple of B.
C21_NewestVersionEmitted ==
    /\ search_pc \in {"valid", "invalid", "returned", "printed"} =>
          \A i \in 1 .. Len(Outputs \o Queued) :
              ~HasNewerYielding((Outputs \o Queued)[i][1],
                                (Outputs \o Queued)[i][2],
                                (Outputs \o Queued)[i][3])
    /\ \A n \in NextTraversals :
          \A c \in TraverseEntries(n[1], n[2]) :
              HasNewerYielding(c[1], c[2], c[3]) =>
                  LET r == entity_check(n[3], c[1], c[2], c[3], c[5], FALSE,
                                        FALSE, FALSE)
                  IN /\ r.ret
                     /\ Count(Emitted(r.s), Key(c[1], c[2], c[3]))
                          = Count(Emitted(n[3]), Key(c[1], c[2], c[3]))

\* A finished search that entered a document at a bundle holding the entity
\* whose newer version holds it too: the newer version is in an output list
\* and the bundle is in none.
C21_Witness ==
    /\ search_pc = "returned"
    /\ \E en \in entries :
          /\ GetEntity(RecordsOf(en[1], en[2]), en[3])
          /\ HasNewerYielding(en[1], en[2], en[3])
          /\ Count(Outputs, Key(en[1], en[2], en[3])) = 0
          /\ \E d \in Descendants(en[1], en[2], BundleIds(en[1])) \ {en[2]} :
                Count(Outputs, Key(en[1], d, en[3])) > 0

\* ------------------------------------------- properties: the phases

\* The fields that only the first phase of Search.search may extend.
FirstPhaseFields(s) == <<s.valid_bundles, s.output_valid, s.postpone_updates>>

\* C22: while the queue of the valid bundles is drained, no postponed triple
\* is promoted and search_traverse runs only with still_valid true; once it
\* is drained the queue stays empty, and neither the promotion of the
\* postponed triples nor a search_traverse with still_valid false appends to
\* the queue of the valid bundles, to the valid output or to the postponed
\* triples.
C22_PhasesInOrder ==
    /\ search_pc = "valid" =>
          /\ output_low = << >>
          /\ \A i \in 1 .. Len(traversed) : traversed[i][2]
    /\ search_pc \in {"invalid", "returned"} => valid_bundles = << >>
    /\ (search_pc = "valid" /\ valid_bundles = << >>) =>
          FirstPhaseFields(promote_postponed(SData, postpone_updates))
            = FirstPhaseFields(SData)
    /\ \A n \in NextTraversals :
          ~n[2] =>
              LET records == RecordsOf(n[1][1], n[1][2])
              IN \A related \in Orders(RelatedEntities(records, n[1][3])),
                    refs \in NextBundles(records, n[1][3]) :
                    FirstPhaseFields(search_traverse(n[3], n[1], FALSE,
                                                     related, refs))
                      = FirstPhaseFields(SData)

\* The last phase at work after a postponed triple was promoted to the
\* low-credibility output and valid bundles were emitted.
C22_Witness ==
    /\ search_pc = "invalid"
    /\ output_valid # << >>
    /\ \E i \in 1 .. Len(postpone_updates) :
          Count(output_low, postpone_updates[i]) > 0
    /\ \E i \in 1 .. Len(traversed) : ~traversed[i][2]
    /\ invalid_bundles # << >>

\* ------------------------------------------ properties: postponement

\* The document was entered at the bundle of en by a has_provenance
\* reference or a derivation, with still_valid true.
EnteredValid(en) == ~en[4] /\ en[5]

\* Bundle b of the triple is reached from the bundle of the entry en over a
\* revision path through an invalid bundle other than the entry bundle.
ThroughInvalid(en, b) ==
    \E x \in Descendants(en[1], en[2], BundleIds(en[1])) \ {en[2]} :
        /\ ~ValidBundle(en[1], x)
        /\ b \in Descendants(en[1], x, BundleIds(en[1])) \ {x}

\* No entry with still_valid true reaches the triple over valid bundles
\* (over any bundles, when the entry is a seed of the entry document).
OnlyThroughInvalid(path, b, e) ==
    \A en \in entries :
        (en[5] /\ en[1] = path /\ en[3] = e) =>
            b \notin Descendants(path, en[2],
                                 IF en[4] THEN BundleIds(path)
                                 ELSE ValidIds(path))

\* C23: seeding postpones nothing; every postponed triple is a valid bundle
\* holding the entity that an entry by reference or derivation with
\* still_valid true reaches through an invalid bundle other than the entry
\* bundle; a valid newest bundle holding the entity that such entries reach
\* only through an invalid bundle is postponed and is not in the valid
\* output; when the search returns every postponed triple is in the
\* low-credibility output, or in the valid output when the first phase
\* classified it by another path.
C23_PostponedBehindInvalid ==
    /\ (search_pc = "valid" /\ traversed = << >>) => postpone_updates = << >>
    /\ \A i \in 1 .. Len(postpone_updates) :
          LET p == postpone_updates[i]
          IN /\ ValidBundle(p[1], p[2])
             /\ GetEntity(RecordsOf(p[1], p[2]), p[3])
             /\ \E en \in entries :
                   /\ EnteredValid(en)
                   /\ en[1] = p[1]
                   /\ en[3] = p[3]
                   /\ ThroughInvalid(en, p[2])
             /\ search_pc = "returned" =>
                   Count(output_low, p) + Count(output_valid, p) = 1
    /\ search_pc \in {"valid", "invalid", "returned"} =>
          \A en \in entries :
              EnteredValid(en) =>
                  \A b \in Descendants(en[1], en[2], BundleIds(en[1])) :
                      ( /\ ValidBundle(en[1], b)
                        /\ GetEntity(RecordsOf(en[1], b), en[3])
                        /\ ~HasNewerYielding(en[1], b, en[3])
                        /\ OnlyThroughInvalid(en[1], b, en[3]) )
                      => /\ Count(postpone_updates, Key(en[1], b, en[3])) > 0
                         /\ Count(output_valid, Key(en[1], b, en[3])) = 0
                         /\ search_pc = "returned" =>
                               Count(output_low, Key(en[1], b, en[3])) = 1

\* A finished search with a postponed triple, reached only through an
\* invalid bundle, in the low-credibility output.
C23_Witness ==
    /\ search_pc = "returned"
    /\ \E i \in 1 .. Len(postpone_updates) :
          /\ Count(output_low, postpone_updates[i]) = 1
          /\ OnlyThroughInvalid(postpone_updates[i][1], postpone_updates[i][2],
                                postpone_updates[i][3])

\* ------------------------------------------- properties: memoization

\* C24 (as stated): entity_check on a triple marked as fully processed
\* returns the stored contains_entity and changes nothing; and in strict
\* mode an invalid bundle that holds the entity, has no newer version
\* yielding it and was examined is marked as (processed, not contained)
\* under the key (path, bundle, entity).
C24_MemoizedUnderTriple ==
    /\ \A key \in DOMAIN searched_bundles :
          (searched_bundles[key][1] /\ key[1] \in DOMAIN files) =>
              \A still_valid, postpone \in BOOLEAN :
                  entity_check(SData, key[1], key[2], key[3], still_valid,
                               postpone, FALSE, FALSE)
                    = [s |-> SData, ret |-> searched_bundles[key][2]]
    /\ (strict /\ search_pc \in {"valid", "invalid", "returned"}) =>
          \A en \in entries :
              \A b \in Descendants(en[1], en[2], BundleIds(en[1])) :
                  ( /\ ~ValidBundle(en[1], b)
                    /\ GetEntity(RecordsOf(en[1], b), en[3])
                    /\ ~HasNewerYielding(en[1], b, en[3]) )
                  => /\ Key(en[1], b, en[3]) \in DOMAIN searched_bundles
                     /\ searched_bundles[Key(en[1], b, en[3])]
                          = <<TRUE, FALSE>>

\* ------------------------------------- properties: transitive closure

\* The bundle or one of its newer versions holds the entity.
Yields(path, b, e) ==
    \E d \in Descendants(path, b, BundleIds(path)) :
        GetEntity(RecordsOf(path, d), e)

\* A triple of the bundle or of one of its newer versions, for the entity,
\* is in an output list.
Covered(path, b, e) ==
    \E d \in Descendants(path, b, BundleIds(path)) :
        Count(Outputs, Key(path, d, e)) > 0

\* The has_provenance references of the entity in the bundle.
ReferencesOf(path, b, e) ==
    UNION {RecordsOf(path, b)[i].hp :
              i \in {j \in 1 .. Len(RecordsOf(path, b)) :
                        /\ RecordsOf(path, b)[j].kind = "entity"
                        /\ RecordsOf(path, b)[j].id = e}}

\* The entities the entity is derived from inside the bundle.
UsedBy(path, b, e) ==
    {RecordsOf(path, b)[i].used :
        i \in {j \in 1 .. Len(RecordsOf(path, b)) :
                  /\ RecordsOf(path, b)[j].kind = "derivation"
                  /\ RecordsOf(path, b)[j].gen = e}}

\* C25: when a non-strict search returns, for every output triple (d, B, E),
\* every has_provenance reference of E in B that resolves to a bundle B0
\* which, or a newer version of which, holds E is covered by an output
\* triple of B0 or of a newer version of B0; and every entity E_u that E is
\* derived from inside B and that B or a newer version of B holds is covered
\* by an output triple of B or of a newer version of B.
C25_ClosedUnderReferences ==
    (~strict /\ search_pc = "returned") =>
        \A i \in 1 .. Len(Outputs) :
            /\ \A r \in ReferencesOf(Outputs[i][1], Outputs[i][2],
                                     Outputs[i][3]) :
                  (Resolves(r) /\ Yields(r[1], r[2], Outputs[i][3]))
                    => Covered(r[1], r[2], Outputs[i][3])
            /\ \A u \in UsedBy(Outputs[i][1], Outputs[i][2], Outputs[i][3]) :
                  Yields(Outputs[i][1], Outputs[i][2], u)
                    => Covered(Outputs[i][1], Outputs[i][2], u)

\* A finished non-strict search with an output triple whose reference into
\* the document "b" is covered by a newer version of the named bundle, and
\* an output triple whose used entity is covered.
C25_Witness ==
    /\ ~strict
    /\ search_pc = "returned"
    /\ \E i \in 1 .. Len(Outputs) :
          \E r \in ReferencesOf(Outputs[i][1], Outputs[i][2], Outputs[i][3]) :
              /\ r[1] = "b"
              /\ Resolves(r)
              /\ Count(Outputs, Key("b", r[2], Outputs[i][3])) = 0
              /\ Covered(r[1], r[2], Outputs[i][3])
    /\ \E i \in 1 .. Len(Outputs) :
          \E u \in UsedBy(Outputs[i][1], Outputs[i][2], Outputs[i][3]) :
              Covered(Outputs[i][1], Outputs[i][2], u)

\* ---------------------------------------- properties: derivations

\* The triples a SearchData value has emitted or enqueued beyond those of
\* the value before.
NewTriples(before, after) ==
    {Emitted(after)[i] : i \in {j \in 1 .. Len(Emitted(after)) :
          Count(Emitted(after), Emitted(after)[j])
            > Count(Emitted(before), Emitted(after)[j])}}

\* The bundle and the bundles that the confirmed revision records of the
\* file make newer versions of it.
NewerInFile(path, b) ==
    ReachedBy(FileEdges(path), {b}, Cardinality(DOMAIN files[path].bundles))

\* C26 (as stated): every triple emitted by following the derivations of E
\* found in bundle B of document d is a triple (d, B, E_u) of bundle B
\* itself, also when B has newer versions.
C26_AsStated ==
    \A n \in NextTraversals :
        \A related \in Orders(RelatedEntities(RecordsOf(n[1][1], n[1][2]),
                                              n[1][3])) :
            \A t \in NewTriples(n[3], traverse_related(n[3], n[1][1], n[1][2],
                                                       n[2], related)) :
                /\ t[1] = n[1][1]
                /\ t[2] = n[1][2]
                /\ t[3] \in UsedBy(n[1][1], n[1][2], n[1][3])

\* C26 (amended): every triple emitted by following the derivations of E
\* found in bundle B of document d is a triple (d, B*, E_u) of the same
\* document, where B* is B or a newer version of B and no newer version of
\* B* yields E_u.
C26_NewestVersionOfBundle ==
    \A n \in NextTraversals :
        \A related \in Orders(RelatedEntities(RecordsOf(n[1][1], n[1][2]),
                                              n[1][3])) :
            \A t \in NewTriples(n[3], traverse_related(n[3], n[1][1], n[1][2],
                                                       n[2], related)) :
                /\ t[1] = n[1][1]
                /\ t[2] \in NewerInFile(n[1][1], n[1][2])
                /\ t[3] \in UsedBy(n[1][1], n[1][2], n[1][3])
                /\ GetEntity(RecordsOf(t[1], t[2]), t[3])
                /\ ~HasNewerYielding(t[1], t[2], t[3])

\* A finished search that traversed a triple of a bundle with a derivation
\* and emitted the used entity in a newer version of that bundle.
C26_Witness ==
    /\ search_pc = "returned"
    /\ \E i \in 1 .. Len(traversed) :
          LET b == traversed[i][1]
          IN \E u \in UsedBy(b[1], b[2], b[3]) :
                /\ Count(Outputs, Key(b[1], b[2], u)) = 0
                /\ \E d \in NewerInFile(b[1], b[2]) \ {b[2]} :
                      Count(Outputs, Key(b[1], d, u)) > 0

\* ------------------------------------------------ properties: seeding

\* The content bundles of the entry document that no confirmed revision
\* record makes a newer version of a bundle and that hold the entity.
ExpectedSeeds ==
    {b \in DOMAIN files[initial_path].bundles :
        /\ \A e \in FileEdges(initial_path) : e[2] # b
        /\ GetEntity(RecordsOf(initial_path, b), searched_entity)}

\* C27: seeding calls entity_check, with still_valid true and
\* initial_document true, exactly for the content bundles of the entry
\* document that have no confirmed older version and hold the target entity.
C27_SeedsAreOldestHolders ==
    search_pc \in {"valid", "invalid", "returned", "printed"} =>
        {en \in entries : en[4]}
          = {<<initial_path, b, searched_entity, TRUE, TRUE>> :
                b \in ExpectedSeeds}

\* A seeded search whose entry document has a seed, a bundle that holds the
\* entity and is no seed, and a bundle without older version that does not
\* hold the entity.
C27_Witness ==
    /\ search_pc = "valid"
    /\ traversed = << >>
    /\ Cardinality({en \in entries : en[4]}) = 1
    /\ \E b \in DOMAIN files[initial_path].bundles :
          /\ GetEntity(RecordsOf(initial_path, b), searched_entity)
          /\ b \notin ExpectedSeeds
    /\ \E b \in DOMAIN files[initial_path].bundles :
          /\ ~GetEntity(RecordsOf(initial_path, b), searched_entity)
          /\ \A e \in FileEdges(initial_path) : e[2] # b

\* ------------------------------------------- properties: the caches

\* C28: within one search Validator.valid_bundle is called at most once for
\* a pair (path, bundle); the verdict of that call, true or false, is the
\* one stored in bundles_validity, and get_validity answers a stored pair
\* with the stored verdict and no further call.
C28_ValidatedOnce ==
    /\ \A i, j \in 1 .. Len(validations) :
          i < j => validations[i] # validations[j]
    /\ DOMAIN bundles_validity = SeqToSet(validations)
    /\ \A k \in DOMAIN bundles_validity :
          /\ bundles_validity[k] = ValidBundle(k[1], k[2])
          /\ get_validity(SData, k[1], k[2])
               = [s |-> SData, ret |-> bundles_validity[k]]

\* A finished search that stored a verdict true and a verdict false, the
\* latter for a bundle whose verdict entity_check asked for and
\* check_prev_validity asked for again when a newer version was emitted.
C28_Witness ==
    /\ search_pc = "returned"
    /\ \E k \in DOMAIN bundles_validity :
          /\ ~bundles_validity[k]
          /\ \E i \in 1 .. Len(Outputs) :
                /\ Outputs[i][1] = k[1]
                /\ Outputs[i][2] \in SeqToSet(NewerIds(DocUpdates(k[1]), k[2]))
    /\ \E k \in DOMAIN bundles_validity : bundles_validity[k]

\* C29 (as stated): within one search no path is deserialized twice; a
\* referenced document that was loaded is reused by every later reference
\* to its path.
C29_LoadedOncePerPath ==
    \A i, j \in 1 .. Len(loads) : i < j => loads[i] # loads[j]

\* ------------------------------------------------------ properties: bases

\* Number of updates whose source is bundle s.
SourceCount(s) ==
    Cardinality({i \in 1 .. Len(updates) : updates[i][1][1] = s})

\* The bundles that a merge update names as its target.
MergeTargetIds ==
    {updates[i][1][2] : i \in {j \in 1 .. Len(updates) :
                                  Len(updates[j][1]) = 2}}

\* The bases that meta m ties bundle b to by specializationOf.
TiedTo(m, b) ==
    {m[i].used : i \in {j \in 1 .. Len(m) :
                            m[j].kind = "spec" /\ m[j].gen = b}}

\* The bases of meta m.
Bases(m) ==
    {m[i].id : i \in {j \in 1 .. Len(m) : m[j].kind = "base"}}

\* The next step of create_updates is an update without target whose source
\* exists.
PlainUpdateNext ==
    /\ gen_pc = "updates"
    /\ next_item <= Len(updates)
    /\ Len(updates[next_item][1]) = 1
    /\ updates[next_item][1][1] \in DOMAIN bundles

\* The bundle that the next update creates is tied to the base of its source
\* when reuse holds, and otherwise to a base that did not exist, recorded in
\* meta as derived from the base of the source.
NextUpdateBase(reuse) ==
    LET s == updates[next_item][1][1]
        g1 == CreateUpdate(GenState, updates[next_item])
        id == g1.bundle_ID
    IN IF reuse
       THEN TiedTo(g1.meta, id) = {bundles[s].spec}
       ELSE \E base \in Bases(g1.meta) \ Bases(meta) :
               /\ TiedTo(g1.meta, id) = {base}
               /\ base \notin {bundles[b].spec : b \in DOMAIN bundles}
               /\ Count(g1.meta, Rec("baseDer", None, base,
                                     bundles[s].spec, {})) = 1

\* Every content bundle is specializationOf exactly one base, once.
OneBasePerBundle ==
    \A b \in DOMAIN bundles :
        /\ Cardinality(TiedTo(meta, b)) = 1
        /\ Cardinality({i \in 1 .. Len(meta) :
                           meta[i].kind = "spec" /\ meta[i].gen = b}) = 1
        /\ TiedTo(meta, b) \subseteq Bases(meta)

\* C32 (as stated): the bundle created by an update without target from
\* source s is tied to the base of s when s is the source of exactly one
\* update, and to a new base, distinct from every existing base and recorded
\* as derived from the base of s, when s is the source of more than one
\* update; every content bundle is specializationOf exactly one base.
C32_AsStated ==
    /\ OneBasePerBundle
    /\ PlainUpdateNext =>
          NextUpdateBase(SourceCount(updates[next_item][1][1]) = 1)

\* C32 (amended): the bundle created by an update without target from source
\* s is tied to the base of s when s is the source of exactly one update and
\* the number of the new bundle is not the target of a merge update; it is
\* tied to a new base, distinct from every existing base and recorded as
\* derived from the base of s, when s is the source of more than one update
\* or the number of the new bundle is the target of a merge update; every
\* content bundle is specializationOf exactly one base.
C32_BaseOfUpdate ==
    /\ OneBasePerBundle
    /\ PlainUpdateNext =>
          NextUpdateBase(
              /\ SourceCount(updates[next_item][1][1]) = 1
              /\ bundle_ID + 1 \notin MergeTargetIds)

\* A finished build with two updates without target of the same source: two
\* bundles with bases of their own, each derived from the base of the source.
C32_Witness ==
    /\ gen_pc = "done"
    /\ Len(updates) = 2
    /\ Len(updates[1][1]) = 1
    /\ updates[2][1] = updates[1][1]
    /\ \E b, c \in DOMAIN bundles :
          /\ b # c
          /\ bundles[b].spec = b
          /\ bundles[c].spec = c
          /\ Count(meta, Rec("baseDer", None, b,
                             bundles[updates[1][1][1]].spec, {})) = 1
          /\ Count(meta, Rec("baseDer", None, c,
                             bundles[updates[1][1][1]].spec, {})) = 1

\* ---------------------------------------------------- properties: updates

\* The next step of create_updates is an update whose source and target
\* exist, the target of an update without target being the bundle created.
UpdateNext ==
    /\ gen_pc = "updates"
    /\ next_item <= Len(updates)
    /\ updates[next_item][1][1] \in DOMAIN bundles
    /\ Len(updates[next_item][1]) = 2 =>
          updates[next_item][1][2] \in DOMAIN bundles

\* The target of the next update.
NextTarget ==
    IF Len(updates[next_item][1]) = 2 THEN updates[next_item][1][2]
    ELSE bundle_ID + 1

\* The record is not typed Revision, is no entity named in the deletions and
\* no derivation whose generatedEntity is named in the deletions.
Survives(record, deletions) ==
    /\ record.kind # "revision"
    /\ record.kind = "entity" => record.id \notin SeqToSet(deletions)
    /\ record.kind = "derivation" => record.gen \notin SeqToSet(deletions)

\* The records the next update adds to its target: the Revision record, the
\* surviving records of the source in their order, then the new entities.
AddedByNextUpdate ==
    LET u == updates[next_item]
        Keep(record) == Survives(record, u[2])
    IN <<RevisionRec(NextTarget, u[1][1])>>
         \o SelectSeq(bundles[u[1][1]].records, Keep)
         \o EntityRecords(u[3])

\* The next update leaves in its target what it held, followed by the
\* records added.
TargetAfterNextUpdate ==
    LET g1 == CreateUpdate(GenState, updates[next_item])
        before == IF NextTarget \in DOMAIN bundles
                  THEN bundles[NextTarget].records ELSE << >>
    IN g1.bundles[NextTarget].records = before \o AddedByNextUpdate

\* The next update leaves the records of its source as they were.
SourceAfterNextUpdate ==
    LET g1 == CreateUpdate(GenState, updates[next_item])
        src == updates[next_item][1][1]
    IN g1.bundles[src].records = bundles[src].records

\* C33 (as stated): an update copies into its target exactly the records of
\* the source that are not typed Revision, are no entity named in the
\* deletions and no derivation whose generatedEntity is named in the
\* deletions, a derivation whose usedEntity alone is deleted being kept; the
\* new entities of the update are added afterwards, and the records of the
\* source bundle are left unchanged.
C33_CopiesSurvivors ==
    UpdateNext => TargetAfterNextUpdate /\ SourceAfterNextUpdate

\* The next step of create_updates is a merge update whose source exists and
\* whose target does not.
MergeTargetMissingNext ==
    /\ gen_pc = "updates"
    /\ next_item <= Len(updates)
    /\ Len(updates[next_item][1]) = 2
    /\ updates[next_item][1][1] \in DOMAIN bundles
    /\ updates[next_item][1][2] \notin DOMAIN bundles

\* The records of meta m that are bundles, revisions or tokens.
BundlesRevisionsTokens(m) ==
    LET Is(record) ==
            record.kind \in {"bundle", "revision", "token", "tokenDer"}
    IN SelectSeq(m, Is)

\* C34 (as stated): an update whose source bundle or merge target does not
\* exist when it is processed is skipped: it adds no bundle, no revision
\* record and no token, and the updates listed after it are still applied,
\* so the build never stops inside the list of updates.
C34_MissingBundleSkipped ==
    /\ gen_pc = "failed" => next_item > Len(updates)
    /\ MergeTargetMissingNext =>
          LET g1 == CreateUpdate(GenState, updates[next_item])
          IN /\ g1.bundles = bundles
             /\ g1.bundle_ID = bundle_ID
             /\ BundlesRevisionsTokens(g1.meta)
                   = BundlesRevisionsTokens(meta)

\* ------------------------------------------------ properties: invalidation ids

\* C35 (as stated): an id in invalidate_bundles that names no content bundle
\* makes the build fail, and then nothing is serialized or written: the
\* build never passes invalidate_bundle_token with such an id, and a failed
\* build has written nothing.
C35_MissingIdFails ==
    /\ gen_pc \in {"serialize", "done"} =>
          SeqToSet(invalidate_bundles) \subseteq DOMAIN bundles
    /\ gen_pc = "failed" => ~written

\* --------------------------------------- properties: the sign function name

\* The smallest number of bytes that hold the bits.
BytesFor(bits) == (bits + 7) \div 8

\* The bytes of a signature SignAuthority.sign_bytes makes under the keys
\* that generate_new_keys makes for the name: two integers of the size of
\* the curve for NIST, one integer of the size of the modulus for RSA.
SignedLength(name) ==
    LET info == get_sign_info(name, FALSE)
    IN IF info.curve # 0 THEN 2 * BytesFor(info.curve)
       ELSE BytesFor(info.size)

\* The names of Utilites.SIGN_FUNC as sequences of characters.
SignFuncNames ==
    {<<"N", "I", "S", "T">> \o size :
        size \in {<<"1", "9", "2">>, <<"2", "5", "6">>, <<"3", "8", "4">>,
                  <<"5", "2", "1">>}}
    \cup {<<"R", "S", "A">> \o size :
        size \in {<<"5", "1", "2">>, <<"1", "0", "2", "4">>,
                  <<"1", "5", "3", "6">>, <<"2", "0", "4", "8">>}}

\* The byte widths required of the four NIST names.
NistWidth(size) ==
    IF size = 192 THEN 48 ELSE IF size = 256 THEN 64
    ELSE IF size = 384 THEN 96 ELSE 132

\* C36: asked for bytes, get_sign_info returns 48, 64, 96 and 132 for
\* NIST192, NIST256, NIST384 and NIST521, which is twice the bytes of the
\* curve, and bits / 8 for RSA<bits>; a NIST name of another size, a name
\* without letters before the size and a name without a size raise; for the
\* names of Utilites.SIGN_FUNC the width equals the length of the signature
\* made at signing.
C36_WidthOfSignature ==
    LET type == TypeOf(parse_name)
        size == ToInt(BitsOf(SubSeq(parse_name, Len(type) + 1,
                                    Len(parse_name))))
        sized == Len(type) < Len(parse_name)
        nist == type = <<"N", "I", "S", "T">>
    IN /\ parse_pc = "returned" /\ parse_bytes /\ nist =>
             /\ size \in {192, 256, 384, 521}
             /\ parse_result.size = NistWidth(size)
             /\ parse_result.size = 2 * BytesFor(size)
       /\ parse_pc = "returned" /\ parse_bytes /\ type = <<"R", "S", "A">> =>
             parse_result.size = size \div 8
       /\ parse_pc = "raised" =>
             \/ nist /\ sized /\ size \notin {192, 256, 384, 521}
             \/ type = << >>
             \/ ~sized
       /\ parse_pc \in {"returned", "raised"} =>
             (parse_pc = "raised" <=>
                 \/ nist /\ size \notin {192, 256, 384, 521}
                 \/ type = << >>
                 \/ ~sized)
       /\ parse_pc = "returned" /\ parse_bytes
             /\ parse_name \in SignFuncNames =>
             parse_result.size = SignedLength(parse_name)

\* NIST521 parsed for its bytes: 132, the length of its signatures.
C36_Witness ==
    /\ parse_pc = "returned"
    /\ parse_bytes
    /\ parse_name = <<"N", "I", "S", "T", "5", "2", "1">>
    /\ parse_result.size = 132
    /\ SignedLength(parse_name) = 132

\* --------------------------------------------- properties: the searched map

\* C37: the searched map is monotone during a search: no assignment of
\* entity_check, add_invalid_output or check_prev_validity gives another
\* value to an entry that is marked as processed, so a processed triple is
\* never set back to not processed and its contains_entity flag never
\* changes.
C37_SearchedMonotone ==
    remarked = {}

\* A finished search that marked a triple as processed holding the entity
\* and a triple as processed not holding it, and in which check_prev_validity
\* visited an older version twice, through two newer versions.
C37_Witness ==
    /\ search_pc = "returned"
    /\ \E k \in DOMAIN searched_bundles : searched_bundles[k] = <<TRUE, TRUE>>
    /\ \E k \in DOMAIN searched_bundles :
          /\ k[1] # ""
          /\ searched_bundles[k] = <<TRUE, FALSE>>
    /\ \E k \in DOMAIN searched_bundles :
          /\ k[1] # ""
          /\ Len(NewerIds(DocUpdates(k[1]), k[2])) = 2
          /\ \A i \in 1 .. 2 :
                Key(k[1], NewerIds(DocUpdates(k[1]), k[2])[i], k[3])
                    \in SeqToSet(Outputs)

\* ------------------------------------------------ properties: the orders

\* SearchData.__init__: the fields before prepare_search.
NewData ==
    [valid_bundles |-> << >>, invalid_bundles |-> << >>,
     postpone_updates |-> << >>, searched_bundles |-> << >>,
     bundles_validity |-> << >>, output_valid |-> << >>,
     output_invalid |-> << >>, output_low |-> << >>,
     validations |-> << >>, remarked |-> {}]

\* valid_bundles or invalid_bundles of the data s.
QueueOf(s, valid) == IF valid THEN s.valid_bundles ELSE s.invalid_bundles

\* The data after one iteration of a loop of Search.search, for every
\* triple of the queue that could be taken, every order of the
\* related_entities set and every order of the has_provenance references.
AnyStep(s, valid) ==
    UNION {LET to_search == QueueOf(s, valid)[i]
               popped == IF valid
                         THEN [s EXCEPT !.valid_bundles = RemoveAt(@, i)]
                         ELSE [s EXCEPT !.invalid_bundles = RemoveAt(@, i)]
               records == RecordsOf(to_search[1], to_search[2])
           IN UNION {{search_traverse(popped, to_search, valid, related,
                                      refs) :
                        refs \in NextBundles(records, to_search[3])} :
                     related \in Orders(RelatedEntities(records,
                                                        to_search[3]))} :
           i \in 1 .. Len(QueueOf(s, valid))}

\* The data of the runs of one loop of Search.search that empty the queue
\* within n iterations, started from the data of S.
RECURSIVE AnyLoop(_, _, _)
AnyLoop(S, valid, n) ==
    LET done == {s \in S : QueueOf(s, valid) = << >>}
    IN IF n = 0 \/ done = S THEN done
       ELSE AnyLoop(done \cup UNION {AnyStep(s, valid) : s \in S \ done},
                    valid, n - 1)

\* The data at the return of Search.search for every order of seeding, of
\* taking triples from the queues and of iterating the two sets, over the
\* runs that need at most MaxTraversals iterations of each loop.
AnyOrderRuns ==
    LET seeded == {prepare_search(NewData, ids) :
                     ids \in Orders(DOMAIN files[initial_path].bundles)}
        valid_done == AnyLoop(seeded, TRUE, MaxTraversals)
        promoted == {promote_postponed(s, s.postpone_updates) :
                       s \in valid_done}
    IN AnyLoop(promoted, FALSE, MaxTraversals)

\* The three lists of a result as sets.
ResultSets(r) == <<SeqToSet(r[1]), SeqToSet(r[2]), SeqToSet(r[3])>>

\* C38: the three result sets of a search are the same for every order in
\* which triples are taken from valid_bundles and invalid_bundles, every
\* iteration order of related_entities and of the has_provenance
\* references in search_traverse, and every order of the bundles of the
\* entry document in prepare_search.
C38_SameForEveryOrder ==
    search_pc = "returned" =>
        \A s \in AnyOrderRuns : ResultSets(SearchResult(s)) = ResultSets(result)

\* A returned search with triples in two of the result lists for which
\* another order returns the lists in another arrangement.
C38_Witness ==
    /\ search_pc = "returned"
    /\ Len(result[1]) + Len(result[2]) + Len(result[3]) >= 3
    /\ \E s \in AnyOrderRuns : SearchResult(s) # result

==========================================================================
